---- MODULE Spec2Model ----
(***************************************************************************)
(* Account rotation, rate-limit aware retry and incremental extraction of  *)
(* the channel scraper (services/account_manager.py and                    *)
(* services/telegram_extractor.py).                                        *)
(*                                                                         *)
(* Spec      : one request drives get_messages / get_messages_since        *)
(*             against the persisted account file, from any file content.  *)
(*             The file is readable and writable (no I/O failure) and the  *)
(*             clock is an integer number of seconds.                      *)
(* SpecSince : _get_messages_since_async iterating one newest-first        *)
(*             history, message by message.                                *)
(* SpecTop   : _get_messages_async counting senders over one feed and      *)
(*             ranking the top contributors.                               *)
(* SpecPool  : concurrent requests on the shared AccountRotationManager,   *)
(*             each a whole-file load followed by a whole-file save.       *)
(* SpecStats : generate_message_statistics over one batch, message by      *)
(*             message (services/helper.py), and the reports of the two    *)
(*             parts of the batch merged.                                  *)
(* SpecMerge : merge_message_statistics over reports of three batches.     *)
(* SpecSum   : analyze_telegram_group and summarize_combined_messages      *)
(*             choosing and running a tier (services/gpt_summerizer.py);   *)
(*             the large tier runs chunk by chunk up to its synthesis.     *)
(***************************************************************************)
EXTENDS Integers, Sequences, FiniteSets, TLC

\* ---------------------------------------------------------------- bounds
MaxAccounts == 2      \* identities in the persisted file
MaxUsage == 1         \* largest usage_count the operator's file starts with
MaxHist == 3          \* messages in a channel history
MaxStamp == 3         \* message timestamps range over 1..MaxStamp

\* ------------------------------------------------------ program constants
max_retries == 3      \* get_messages / get_messages_since
BackoffSeconds == 2   \* time.sleep(2)

\* timestamps the operator's file may hold, and waits the provider may signal
FileStamps == {2}
\* clock readings at which the request may arrive
StartTimes == {0, 3}
WaitSeconds == {2, 3}

VARIABLES
    file,           \* persisted pool: [accounts, current_index, updated_at]
    now,            \* datetime.now(), in seconds
    pc,             \* position of the request in get_messages[_since]
    kind,           \* "fetch" | "fetch_since" | "none"
    retry_count,    \* local of get_messages
    account_index,  \* local of get_messages; -1 while unbound
    session,        \* identity the open TelegramClient session uses, or -1
    raised,         \* exception leaving the call: [type, carries]
    result,         \* returned dict, reduced to account_used; -1 when none
    trace,          \* observations of the current call (see NoTrace)
    hist,           \* SpecSince: the channel history, newest first
    since,          \* SpecSince: the 'since' instant
    limit,          \* SpecSince: the limit argument (0 = None)
    pos,            \* SpecSince: messages consumed by the iteration
    messages,       \* SpecSince: the collected / returned list
    spc             \* SpecSince: "iter" | "returned"

poolVars == <<file, now>>
callVars == <<pc, kind, retry_count, account_index, session, raised, result,
              trace>>
sinceVars == <<hist, since, limit, pos, messages, spc>>
VARIABLES
    feed,           \* SpecTop: sender_name of each text message, as iterated
    tpos,           \* SpecTop: messages consumed by the iteration
    detailed_users, \* SpecTop: the dict, as its items in insertion order
    top_50_users,   \* SpecTop: the returned ranking
    tpc             \* SpecTop: "iter" | "returned" | "off"

topVars == <<feed, tpos, detailed_users, top_50_users, tpc>>

VARIABLES
    fstate,         \* SpecPool: bytes of the file: "ok" | "truncated" | "garbled"
    op,             \* SpecPool: per request, the pool operation in progress
    calls,          \* SpecPool: operations started so far
    ids0,           \* SpecPool: api_id of the identities the operator configured
    marked,         \* SpecPool: per identity, the end of the cooldown that a
                    \* completed mark_account_rate_limited recorded and no
                    \* completed reset_rate_limits cleared since; -1 if none
    raced           \* SpecPool: two operations have been in progress at once

workVars == <<fstate, op, calls, ids0, marked, raced>>

VARIABLES
    batch,          \* SpecStats: the messages argument
    trigger_words,  \* SpecStats, SpecMerge: the trigger_words argument
    spos,           \* SpecStats: messages consumed by the for loop
    acc,            \* SpecStats: the five accumulators of the loop
    report,         \* SpecStats: the returned dict
    stpc            \* SpecStats: "loop" | "returned" | "merged" | "off"

statVars == <<batch, trigger_words, spos, acc, report, stpc>>

VARIABLES
    stats,          \* SpecMerge: the three reports a, b, c;
                    \* SpecStats: the reports of the two parts of the batch
    merged,         \* the results of the merges of one step
    mpc             \* SpecMerge: "input" | "three" | "two" | "self" | "off"

mergeVars == <<stats, merged, mpc>>

VARIABLES
    input,          \* SpecSum: all_messages, as [days, unparsed]
    response_language, \* SpecSum: the response_language argument
    tier,           \* SpecSum: the strategy entered, or "none"
    daily_summaries, \* SpecSum: local of _summarize_medium_dataset
    chunks,         \* SpecSum: local of _summarize_large_dataset
    chunk_i,        \* SpecSum: chunks the for loop has gone through
    chunk_summaries, \* SpecSum: local of _summarize_large_dataset
    synthesis_tokens, \* SpecSum: local of _summarize_large_dataset; -1 unbound
    completions,    \* SpecSum: the chat.completions.create calls issued
    responses,      \* SpecSum: how each call ended: [status, content]
    outcome,        \* SpecSum: "none" | "returned" | the exception raised
    supc            \* SpecSum: position in the call

sumVars == <<input, response_language, tier, daily_summaries, chunks, chunk_i,
             chunk_summaries, synthesis_tokens, completions, responses,
             outcome, supc>>

\* the variables of the specifications that follow SpecSince
extVars == <<topVars, workVars, statVars, mergeVars, sumVars>>

vars == <<poolVars, callVars, sinceVars, extVars>>

\* ------------------------------------------------------- persisted state
\* rate_limited_until as stored: '' | a string fromisoformat rejects |
\* an ISO timestamp without UTC offset | an ISO timestamp with UTC offset
RlEmpty == [kind |-> "empty", t |-> 0]
RlBad == [kind |-> "bad", t |-> 0]
RlNaive(t) == [kind |-> "naive", t |-> t]
RlAware(t) == [kind |-> "aware", t |-> t]

RlValues == {RlEmpty, RlBad} \cup {RlNaive(t) : t \in FileStamps}
                             \cup {RlAware(t) : t \in FileStamps}

\* last_used = -1 stands for the key being absent ('Never')
Account(u, l, r) == [usage_count |-> u, last_used |-> l, rate_limited_until |-> r]

InitAccounts == {Account(u, -1, r) : u \in 0..MaxUsage, r \in RlValues}

SeqsUpTo(S, n) == UNION {[1..k -> S] : k \in 0..n}

\* _load_accounts_from_file / _save_accounts_to_file on a readable file
load_accounts(f) == <<f.accounts, f.current_index>>

\* (variant: the save advances current_index)
MutSaveAccounts(accounts, current_index, t) ==
    [accounts |-> accounts, current_index |-> current_index + 1, updated_at |-> t]

save_accounts(accounts, current_index, t) ==
    [accounts |-> accounts, current_index |-> current_index, updated_at |-> t]

\* (variant: the comparison written now < rate_limit_end)
MutIsAvailable(account, t) ==
    LET r == account.rate_limited_until IN
    IF r.kind = "empty" THEN TRUE
    ELSE IF r.kind = "bad" THEN TRUE
    ELSE IF r.kind = "aware" THEN TRUE
    ELSE t < r.t

\* the test of get_next_available_account's loop body: '' is falsy; a
\* ValueError of fromisoformat and a TypeError of comparing the naive now
\* with an offset-aware timestamp both land in the bare except
IsAvailable(account, t) ==
    LET r == account.rate_limited_until IN
    IF r.kind = "empty" THEN TRUE
    ELSE IF r.kind = "bad" THEN TRUE
    ELSE IF r.kind = "aware" THEN TRUE
    ELSE t > r.t

\* available_accounts: the indices (0-based, as enumerate) in list order
RECURSIVE AvailableFrom(_, _, _)
AvailableFrom(accounts, i, t) ==
    IF i > Len(accounts) THEN <<>>
    ELSE IF IsAvailable(accounts[i], t)
         THEN <<i - 1>> \o AvailableFrom(accounts, i + 1, t)
         ELSE AvailableFrom(accounts, i + 1, t)

available_accounts(accounts, t) == AvailableFrom(accounts, 1, t)

\* list.sort(key=usage_count) is a stable sort; modelled as the insertion
\* sort that places each element behind the elements with an equal key
RECURSIVE InsertByUsage(_, _, _)
InsertByUsage(accounts, sorted, i) ==
    IF sorted = <<>> THEN <<i>>
    ELSE IF accounts[i + 1].usage_count < accounts[Head(sorted) + 1].usage_count
         THEN <<i>> \o sorted
         ELSE <<Head(sorted)>> \o InsertByUsage(accounts, Tail(sorted), i)

RECURSIVE SortInto(_, _, _)
SortInto(accounts, sorted, rest) ==
    IF rest = <<>> THEN sorted
    ELSE SortInto(accounts, InsertByUsage(accounts, sorted, Head(rest)), Tail(rest))

SortByUsage(accounts, avail) == SortInto(accounts, <<>>, avail)

\* get_next_available_account: [ok, index] or the exception it raises
get_next_available_account(f, t) ==
    LET accounts == load_accounts(f)[1]
        avail == available_accounts(accounts, t)
    IN  IF accounts = <<>> THEN [ok |-> FALSE, error |-> "NoAccounts", index |-> -1]
        ELSE IF avail = <<>> THEN [ok |-> FALSE, error |-> "AllRateLimited", index |-> -1]
        ELSE [ok |-> TRUE, error |-> "none", index |-> SortByUsage(accounts, avail)[1]]

\* (variant: the index test written 0 < account_index)
MutUpdateAccountUsage(f, index, t) ==
    LET accounts == load_accounts(f)[1]
        current_index == load_accounts(f)[2]
    IN  IF 0 < index /\ index < Len(accounts)
        THEN save_accounts(
                 [accounts EXCEPT ![index + 1].last_used = t,
                                  ![index + 1].usage_count = @ + 1],
                 current_index, t)
        ELSE f

\* update_account_usage
update_account_usage(f, index, t) ==
    LET accounts == load_accounts(f)[1]
        current_index == load_accounts(f)[2]
    IN  IF 0 <= index /\ index < Len(accounts)
        THEN save_accounts(
                 [accounts EXCEPT ![index + 1].last_used = t,
                                  ![index + 1].usage_count = @ + 1],
                 current_index, t)
        ELSE f

\* (variant: the wait is not added to datetime.now())
MutMarkAccountRateLimited(f, index, wait_seconds, t) ==
    LET accounts == load_accounts(f)[1]
        current_index == load_accounts(f)[2]
    IN  IF 0 <= index /\ index < Len(accounts)
        THEN save_accounts(
                 [accounts EXCEPT ![index + 1].rate_limited_until = RlNaive(t)],
                 current_index, t)
        ELSE f

\* mark_account_rate_limited: datetime.now() + timedelta(seconds=wait_seconds)
\* is written with isoformat(), an ISO timestamp without UTC offset
mark_account_rate_limited(f, index, wait_seconds, t) ==
    LET accounts == load_accounts(f)[1]
        current_index == load_accounts(f)[2]
    IN  IF 0 <= index /\ index < Len(accounts)
        THEN save_accounts(
                 [accounts EXCEPT ![index + 1].rate_limited_until =
                                      RlNaive(t + wait_seconds)],
                 current_index, t)
        ELSE f

\* (variant: the reset also clears the usage statistics)
MutResetRateLimits(f, t) ==
    LET accounts == load_accounts(f)[1]
        current_index == load_accounts(f)[2]
    IN  save_accounts(
            [k \in 1..Len(accounts) |->
                [accounts[k] EXCEPT !.rate_limited_until = RlEmpty,
                                    !.usage_count = 0]],
            current_index, t)

\* reset_rate_limits
reset_rate_limits(f, t) ==
    LET accounts == load_accounts(f)[1]
        current_index == load_accounts(f)[2]
    IN  save_accounts(
            [k \in 1..Len(accounts) |->
                [accounts[k] EXCEPT !.rate_limited_until = RlEmpty]],
            current_index, t)

\* ------------------------------------------------------------- the errors
\* Exceptions other than FloodWaitError, by what str(e) contains.  The two
\* exceptions of get_next_available_account carry fixed messages.
ClientErrors == {"not_found", "username", "other"}
PoolErrors == {"NoAccounts", "AllRateLimited"}

\* "not found" in error_msg
ContainsNotFound(e) == e = "not_found"
\* "username" in error_msg.lower()
ContainsUsername(e) == e = "username"

\* (variant: only the "not found" test)
MutIsNotFoundClass(e) == ContainsNotFound(e)

\* "not found" in error_msg or "username" in error_msg.lower()
IsNotFoundClass(e) == ContainsNotFound(e) \/ ContainsUsername(e)

NoRaise == [type |-> "none", carries |-> "none"]

\* what the call has done so far; reset when a call starts
NoTrace == [attempts |-> 0,        \* loop iterations begun
            sleeps |-> 0,          \* time.sleep(2) taken
            sessions |-> 0,        \* sessions opened
            usage_updates |-> 0,   \* update_account_usage performed
            floods |-> 0,          \* attempts ended by FloodWaitError
            errors |-> 0,          \* attempts ended by a retried Exception
            first_select |-> "none", \* outcome of the first selection
            last_error |-> "none", \* error of the last failed attempt
            flood_index |-> -1,    \* identity of the last attempt if it
            flood_wait |-> 0,      \*   ended by FloodWaitError, its wait
            flood_at |-> 0,        \*   and the time it was recorded
            avail |-> {},          \* identities available at the selection
            file0 |-> <<>>]        \* accounts when the call started

\* (variant: the session is closed at the end of the body only)
MutSessionAfter(exit) == IF exit = "return" THEN -1 ELSE session

\* the async with block of _get_messages[_since]_async: __aexit__ runs on
\* every way out of the body ("return", "FloodWaitError", "Exception")

SessionAfter(exit) == -1

\* (variant: the FloodWaitError handler does not count the attempt)
MutNextRetryCount(rc, handler) == IF handler = "FloodWaitError" THEN rc ELSE rc + 1

\* retry_count += 1 (both handlers)
NextRetryCount(rc, handler) == rc + 1

\* (variant: the message leaves error_msg out)
MutFailedAfter(e) == [type |-> "FailedAfter", carries |-> "none"]

\* raise Exception(f"Failed after {max_retries} attempts: {error_msg}")
FailedAfter(e) == [type |-> "FailedAfter", carries |-> e]

\* raise Exception(f"Telegram channel '{channel_username}' not found.")
ChannelNotFound == [type |-> "ChannelNotFound", carries |-> "none"]

\* raise Exception(f"Failed to extract messages after all retries")
FailedAllRetries == [type |-> "FailedAllRetries", carries |-> "none"]

\* ------------------------------------------------------------------ Init
InitFiles == {[accounts |-> a, current_index |-> 0, updated_at |-> 0] :
                  a \in SeqsUpTo(InitAccounts, MaxAccounts)}

CallIdle ==
    /\ pc = "idle"
    /\ kind = "none"
    /\ retry_count = 0
    /\ account_index = -1
    /\ session = -1
    /\ raised = NoRaise
    /\ result = -1
    /\ trace = NoTrace

SinceIdle ==
    /\ hist = <<>>
    /\ since = 0
    /\ limit = 0
    /\ pos = 0
    /\ messages = <<>>
    /\ spc = "returned"

TopIdle ==
    /\ feed = <<>>
    /\ tpos = 0
    /\ detailed_users = <<>>
    /\ top_50_users = <<>>
    /\ tpc = "off"

\* no pool operation in progress in a request
IdleOp == [name |-> "none", phase |-> "idle", index |-> -1, wait |-> 0,
           content |-> [accounts |-> <<>>, current_index |-> 0, updated_at |-> 0],
           overlapped |-> FALSE]

WorkIdle ==
    /\ fstate = "ok"
    /\ op = <<>>
    /\ calls = 0
    /\ ids0 = <<>>
    /\ marked = <<>>
    /\ raced = FALSE

StatsIdle ==
    /\ batch = <<>>
    /\ trigger_words = {}
    /\ spos = 0
    /\ acc = <<>>
    /\ report = <<>>
    /\ stpc = "off"

MergeIdle ==
    /\ stats = <<>>
    /\ merged = <<>>
    /\ mpc = "off"

SumIdle ==
    /\ input = [days |-> <<>>, unparsed |-> 0]
    /\ response_language = "english"
    /\ tier = "none"
    /\ daily_summaries = <<>>
    /\ chunks = <<>>
    /\ chunk_i = 0
    /\ chunk_summaries = <<>>
    /\ synthesis_tokens = -1
    /\ completions = <<>>
    /\ responses = <<>>
    /\ outcome = "none"
    /\ supc = "off"

ExtIdle ==
    /\ TopIdle
    /\ WorkIdle
    /\ StatsIdle
    /\ MergeIdle
    /\ SumIdle

Init ==
    /\ file \in InitFiles
    /\ now \in StartTimes
    /\ CallIdle
    /\ SinceIdle
    /\ ExtIdle

\* --------------------------------------------- get_messages[_since] steps
\* a request enters get_messages or get_messages_since
StartCall ==
    /\ pc = "idle"
    /\ \E k \in {"fetch", "fetch_since"} : kind' = k
    /\ pc' = "loop"
    /\ retry_count' = 0
    /\ account_index' = -1
    /\ raised' = NoRaise
    /\ result' = -1
    /\ trace' = [NoTrace EXCEPT !.file0 = file.accounts]
    /\ UNCHANGED <<file, now, session>>
    /\ UNCHANGED sinceVars
    /\ UNCHANGED extVars

\* the except Exception handler, entered with error e and the trace tr of
\* the attempt that failed
HandleException(e, tr) ==
    IF IsNotFoundClass(e)
    THEN /\ raised' = ChannelNotFound
         /\ pc' = "done"
         /\ retry_count' = retry_count
         /\ trace' = [tr EXCEPT !.last_error = e, !.flood_index = -1]
    ELSE /\ retry_count' = NextRetryCount(retry_count, "Exception")
         /\ trace' = [tr EXCEPT !.last_error = e, !.flood_index = -1,
                                !.errors = @ + 1]
         /\ IF retry_count' < max_retries
            THEN pc' = "sleep" /\ raised' = raised
            ELSE pc' = "done" /\ raised' = FailedAfter(e)

\* while retry_count < max_retries: get_next_available_account() returns
SelectAccount ==
    /\ pc = "loop"
    /\ retry_count < max_retries
    /\ LET r == get_next_available_account(file, now) IN
       /\ r.ok
       /\ account_index' = r.index
       /\ pc' = "open"
       /\ trace' = [trace EXCEPT
              !.attempts = @ + 1,
              !.first_select = IF trace.attempts = 0 THEN "ok" ELSE @,
              !.avail = {i \in 0..(Len(file.accounts) - 1) :
                             IsAvailable(file.accounts[i + 1], now)}]
    /\ UNCHANGED <<file, now, kind, retry_count, session, raised, result>>
    /\ UNCHANGED sinceVars
    /\ UNCHANGED extVars

\* get_next_available_account() raises inside the try block
SelectFails ==
    /\ pc = "loop"
    /\ retry_count < max_retries
    /\ LET r == get_next_available_account(file, now) IN
       /\ ~r.ok
       /\ HandleException(r.error,
              [trace EXCEPT
                  !.attempts = @ + 1,
                  !.first_select = IF trace.attempts = 0 THEN r.error ELSE @,
                  !.avail = {}])
    /\ UNCHANGED <<file, now, kind, account_index, session, result>>
    /\ UNCHANGED sinceVars
    /\ UNCHANGED extVars

\* async with TelegramClient(...) as client
OpenSession ==
    /\ pc = "open"
    /\ session' = account_index
    /\ pc' = "session"
    /\ trace' = [trace EXCEPT !.sessions = @ + 1]
    /\ UNCHANGED <<file, now, kind, retry_count, account_index, raised, result>>
    /\ UNCHANGED sinceVars
    /\ UNCHANGED extVars

\* the body returns; update_account_usage(account_index); return result
AttemptSucceeds ==
    /\ pc = "session"
    /\ session' = SessionAfter("return")
    /\ file' = update_account_usage(file, account_index, now)
    /\ result' = account_index
    /\ pc' = "done"
    /\ trace' = [trace EXCEPT !.usage_updates = @ + 1, !.flood_index = -1]
    /\ UNCHANGED <<now, kind, retry_count, account_index, raised>>
    /\ UNCHANGED sinceVars
    /\ UNCHANGED extVars

\* except FloodWaitError as e
AttemptFlood ==
    /\ pc = "session"
    /\ \E w \in WaitSeconds :
         /\ file' = mark_account_rate_limited(file, account_index, w, now)
         /\ trace' = [trace EXCEPT !.floods = @ + 1,
                                   !.last_error = "flood",
                                   !.flood_index = account_index,
                                   !.flood_wait = w,
                                   !.flood_at = now]
    /\ session' = SessionAfter("FloodWaitError")
    /\ retry_count' = NextRetryCount(retry_count, "FloodWaitError")
    /\ pc' = "sleep"
    /\ UNCHANGED <<now, kind, account_index, raised, result>>
    /\ UNCHANGED sinceVars
    /\ UNCHANGED extVars

\* except Exception as e, raised by the channel client
AttemptError ==
    /\ pc = "session"
    /\ \E e \in ClientErrors : HandleException(e, trace)
    /\ session' = SessionAfter("Exception")
    /\ UNCHANGED <<file, now, kind, account_index, result>>
    /\ UNCHANGED sinceVars
    /\ UNCHANGED extVars

\* time.sleep(2), then back to the loop test; the sleep lasts at least
\* two seconds and the next selection reads the clock some time later
Sleep ==
    /\ pc = "sleep"
    /\ \E d \in {BackoffSeconds, BackoffSeconds + 1} :
         /\ now' = now + d
    /\ pc' = "loop"
    /\ trace' = [trace EXCEPT !.sleeps = @ + 1]
    /\ UNCHANGED <<file, kind, retry_count, account_index, session, raised, result>>
    /\ UNCHANGED sinceVars
    /\ UNCHANGED extVars

\* the loop test fails: raise "Failed to extract messages after all retries"
LoopExit ==
    /\ pc = "loop"
    /\ ~(retry_count < max_retries)
    /\ raised' = FailedAllRetries
    /\ pc' = "done"
    /\ UNCHANGED <<file, now, kind, retry_count, account_index, session, result, trace>>
    /\ UNCHANGED sinceVars
    /\ UNCHANGED extVars

\* POST /accounts/reset-limits before the request arrives
ResetRateLimits ==
    /\ pc = "idle"
    /\ file' = reset_rate_limits(file, now)
    /\ UNCHANGED <<now>>
    /\ UNCHANGED callVars
    /\ UNCHANGED sinceVars
    /\ UNCHANGED extVars

Next ==
    \/ StartCall
    \/ SelectAccount
    \/ SelectFails
    \/ OpenSession
    \/ AttemptSucceeds
    \/ AttemptFlood
    \/ AttemptError
    \/ Sleep
    \/ LoopExit
    \/ ResetRateLimits

Spec == Init /\ [][Next]_vars

\* ------------------------------------------- _get_messages_since_async
\* A message of the channel: date is its UTC instant, text whether
\* message.text is non-empty.  Ids grow with time: the newest is the largest.
Message(i, d, x) == [message_id |-> i, date |-> d, text |-> x]

\* client.iter_messages yields the history newest first
NewestFirst(h) == \A k \in 1..(Len(h) - 1) : h[k].date >= h[k + 1].date

Histories ==
    {h \in UNION {[1..n -> [date : 1..MaxStamp, text : BOOLEAN]] : n \in 0..MaxHist} :
        NewestFirst(h)}

WithIds(h) == [k \in 1..Len(h) |-> Message(Len(h) + 1 - k, h[k].date, h[k].text)]

\* message.date.isoformat(): fixed-width digits, most significant first
isoformat(d) == <<d \div 10, d % 10>>

\* datetime.fromisoformat on such a string
fromisoformat(str) == str[1] * 10 + str[2]

\* str < str: lexicographic comparison, character by character
RECURSIVE StrLess(_, _)
StrLess(a, b) ==
    IF b = <<>> THEN FALSE
    ELSE IF a = <<>> THEN TRUE
    ELSE IF Head(a) # Head(b) THEN Head(a) < Head(b)
    ELSE StrLess(Tail(a), Tail(b))

\* messages.sort(key=lambda x: x['timestamp_raw']): stable, ascending
RECURSIVE InsertByRaw(_, _)
InsertByRaw(sorted, m) ==
    IF sorted = <<>> THEN <<m>>
    ELSE IF StrLess(m.timestamp_raw, Head(sorted).timestamp_raw)
         THEN <<m>> \o sorted
         ELSE <<Head(sorted)>> \o InsertByRaw(Tail(sorted), m)

RECURSIVE SortByRawInto(_, _)
SortByRawInto(sorted, rest) ==
    IF rest = <<>> THEN sorted
    ELSE SortByRawInto(InsertByRaw(sorted, Head(rest)), Tail(rest))

SortByRaw(ms) == SortByRawInto(<<>>, ms)

\* (variant: the test written msg_date < since_utc)
MutReachedOlder(msg_date, since_utc) == msg_date < since_utc

\* if msg_date <= since_utc: break
ReachedOlder(msg_date, since_utc) == msg_date <= since_utc

\* message_data, reduced to the fields the ordering depends on
message_data(m) == [message_id |-> m.message_id, timestamp_raw |-> isoformat(m.date)]

\* iter_messages(channel, limit=limit if limit else None)
Yielded(h, lim) == IF lim = 0 \/ lim > Len(h) THEN Len(h) ELSE lim

InitSince ==
    /\ file = [accounts |-> <<>>, current_index |-> 0, updated_at |-> 0]
    /\ now = 0
    /\ CallIdle
    /\ \E h \in Histories : hist = WithIds(h)
    /\ since \in 0..MaxStamp
    /\ limit \in 0..MaxHist
    /\ pos = 0
    /\ messages = <<>>
    /\ spc = "iter"
    /\ ExtIdle

\* one round of the async for loop on a message newer than since
IterCollect ==
    /\ spc = "iter"
    /\ pos < Yielded(hist, limit)
    /\ LET message == hist[pos + 1] IN
       /\ ~ReachedOlder(message.date, since)
       /\ messages' = IF message.text
                      THEN Append(messages, message_data(message))
                      ELSE messages
    /\ pos' = pos + 1
    /\ UNCHANGED <<hist, since, limit, spc>>
    /\ UNCHANGED poolVars
    /\ UNCHANGED callVars
    /\ UNCHANGED extVars

\* the round that breaks out of the loop; the sort and the return follow
IterBreak ==
    /\ spc = "iter"
    /\ pos < Yielded(hist, limit)
    /\ ReachedOlder(hist[pos + 1].date, since)
    /\ messages' = SortByRaw(messages)
    /\ spc' = "returned"
    /\ UNCHANGED <<hist, since, limit, pos>>
    /\ UNCHANGED poolVars
    /\ UNCHANGED callVars
    /\ UNCHANGED extVars

\* the iterator is exhausted; the sort and the return follow
IterExhausted ==
    /\ spc = "iter"
    /\ pos = Yielded(hist, limit)
    /\ messages' = SortByRaw(messages)
    /\ spc' = "returned"
    /\ UNCHANGED <<hist, since, limit, pos>>
    /\ UNCHANGED poolVars
    /\ UNCHANGED callVars
    /\ UNCHANGED extVars

NextSince ==
    \/ IterCollect
    \/ IterBreak
    \/ IterExhausted

SpecSince == InitSince /\ [][NextSince]_vars

\* --------------------------------------- the top_50_users ranking (SpecTop)
\* _get_messages_async and _get_messages_since_async build the ranking with
\* the same statements; SpecTop iterates one feed of text messages.
MaxSenders == 52      \* distinct sender names in a feed
MaxCount == 3         \* messages of one sender in a feed

\* sorted_users[:50]
TopUsersCut == 50

\* A feed in which sender k (named by the order of first appearance) writes
\* 1 + (k * a) % b messages: every sender once, then the senders with a
\* second message, then those with a third, ...
FeedCount(k, a, b) == 1 + ((k * a) % b)

RECURSIVE FeedRound(_, _, _, _, _)
FeedRound(n, a, b, r, k) ==
    IF k > n THEN <<>>
    ELSE IF FeedCount(k, a, b) >= r
         THEN <<k>> \o FeedRound(n, a, b, r, k + 1)
         ELSE FeedRound(n, a, b, r, k + 1)

RECURSIVE FeedFrom(_, _, _, _)
FeedFrom(n, a, b, r) ==
    IF r > b THEN <<>>
    ELSE FeedRound(n, a, b, r, 1) \o FeedFrom(n, a, b, r + 1)

Feeds == {FeedFrom(n, a, b, 1) :
              n \in 0..MaxSenders, a \in 0..(MaxCount - 1), b \in 1..MaxCount}

\* position of sender_name in the dict's insertion order, 0 when absent
RECURSIVE KeyIndex(_, _, _)
KeyIndex(d, name, k) ==
    IF k > Len(d) THEN 0
    ELSE IF d[k].display_name = name THEN k
    ELSE KeyIndex(d, name, k + 1)

\* if sender_name not in detailed_users: ... ; message_count += 1
CountMessage(d, name) ==
    LET k == KeyIndex(d, name, 1) IN
    IF k = 0
    THEN Append(d, [display_name |-> name, message_count |-> 1])
    ELSE [d EXCEPT ![k].message_count = @ + 1]

RECURSIVE ReverseSeq(_)
ReverseSeq(s) == IF s = <<>> THEN <<>> ELSE Append(ReverseSeq(Tail(s)), Head(s))

\* insertion behind the entries whose count is not smaller: the order that
\* sorted(..., reverse=True) gives, which keeps equal keys in input order
RECURSIVE InsertByCountDesc(_, _)
InsertByCountDesc(sorted, u) ==
    IF sorted = <<>> THEN <<u>>
    ELSE IF u.message_count > Head(sorted).message_count
         THEN <<u>> \o sorted
         ELSE <<Head(sorted)>> \o InsertByCountDesc(Tail(sorted), u)

RECURSIVE SortByCountDescInto(_, _)
SortByCountDescInto(sorted, rest) ==
    IF rest = <<>> THEN sorted
    ELSE SortByCountDescInto(InsertByCountDesc(sorted, Head(rest)), Tail(rest))

\* insertion behind the entries whose count is not larger (ascending, stable)
RECURSIVE InsertByCountAsc(_, _)
InsertByCountAsc(sorted, u) ==
    IF sorted = <<>> THEN <<u>>
    ELSE IF u.message_count < Head(sorted).message_count
         THEN <<u>> \o sorted
         ELSE <<Head(sorted)>> \o InsertByCountAsc(Tail(sorted), u)

RECURSIVE SortByCountAscInto(_, _)
SortByCountAscInto(sorted, rest) ==
    IF rest = <<>> THEN sorted
    ELSE SortByCountAscInto(InsertByCountAsc(sorted, Head(rest)), Tail(rest))

\* (variant: sorted(...) ascending, then reversed)
MutSortedUsers(d) == ReverseSeq(SortByCountAscInto(<<>>, d))

\* sorted(detailed_users.items(), key=message_count, reverse=True)
sorted_users(d) == SortByCountDescInto(<<>>, d)

\* s[:n]
Slice(s, n) == IF Len(s) <= n THEN s ELSE SubSeq(s, 1, n)

\* for i, (sender_name, user_info) in enumerate(sorted_users[:50], 1)
RankTop(d) ==
    LET cut == Slice(sorted_users(d), TopUsersCut) IN
    [i \in 1..Len(cut) |-> [rank |-> i,
                            display_name |-> cut[i].display_name,
                            message_count |-> cut[i].message_count]]

InitTop ==
    /\ file = [accounts |-> <<>>, current_index |-> 0, updated_at |-> 0]
    /\ now = 0
    /\ CallIdle
    /\ SinceIdle
    /\ feed \in Feeds
    /\ tpos = 0
    /\ detailed_users = <<>>
    /\ top_50_users = <<>>
    /\ tpc = "iter"
    /\ WorkIdle
    /\ StatsIdle
    /\ MergeIdle
    /\ SumIdle

\* one round of the async for loop on a message with text
TopCount ==
    /\ tpc = "iter"
    /\ tpos < Len(feed)
    /\ detailed_users' = CountMessage(detailed_users, feed[tpos + 1])
    /\ tpos' = tpos + 1
    /\ UNCHANGED <<feed, top_50_users, tpc>>
    /\ UNCHANGED <<poolVars, callVars, sinceVars, workVars, statVars, mergeVars, sumVars>>

\* the iterator is exhausted: the ranking is derived and returned
TopReturn ==
    /\ tpc = "iter"
    /\ tpos = Len(feed)
    /\ top_50_users' = RankTop(detailed_users)
    /\ tpc' = "returned"
    /\ UNCHANGED <<feed, tpos, detailed_users>>
    /\ UNCHANGED <<poolVars, callVars, sinceVars, workVars, statVars, mergeVars, sumVars>>

NextTop ==
    \/ TopCount
    \/ TopReturn

SpecTop == InitTop /\ [][NextTop]_vars

\* ------------------------- concurrent requests on the one file (SpecPool)
\* app.py holds one AccountRotationManager for all requests and Flask serves
\* requests concurrently; every pool operation loads the whole file and, if
\* it saves, writes the whole file back.  A save is open(file, 'w'), which
\* truncates, followed by json.dump and the close that writes the bytes.
MaxWorkers == 2       \* requests in flight
MaxCalls == 2         \* pool operations started in one behaviour

Workers == 1..MaxWorkers

\* an identity as the operator configured it; api_id tells identities apart
PoolAccount(k, u) == [api_id |-> k, usage_count |-> u, last_used |-> -1,
                      rate_limited_until |-> RlEmpty]

PoolFiles == {[accounts |-> [k \in 1..n |-> PoolAccount(k, u[k])],
               current_index |-> 0, updated_at |-> 0] :
                  n \in 1..MaxAccounts, u \in [1..MaxAccounts -> 0..MaxUsage]}

\* the wait a rate-limit signal carries
PoolWaits == {2}

\* the operations and their arguments; an index argument is one that an
\* earlier get_next_available_account returned
PoolRequests ==
    {[name |-> "update_account_usage", index |-> i, wait |-> 0] :
         i \in 0..(Len(ids0) - 1)}
    \cup {[name |-> "mark_account_rate_limited", index |-> i, wait |-> w] :
         i \in 0..(Len(ids0) - 1), w \in PoolWaits}
    \cup {[name |-> n, index |-> -1, wait |-> 0] :
         n \in {"reset_rate_limits", "get_next_available_account",
                "get_accounts_status"}}

\* _load_accounts_from_file: a missing file, a failed read and a failed
\* parse all give ([], 0)
LoadedFile(f, readable) ==
    IF readable
    THEN [accounts |-> load_accounts(f)[1], current_index |-> load_accounts(f)[2],
          updated_at |-> 0]
    ELSE [accounts |-> <<>>, current_index |-> 0, updated_at |-> 0]

\* whether the operation reaches save_accounts with what it loaded
WillSave(o) ==
    \/ o.name = "reset_rate_limits"
    \/ /\ o.name \in {"update_account_usage", "mark_account_rate_limited"}
       /\ 0 <= o.index
       /\ o.index < Len(o.content.accounts)

\* the data handed to save_accounts
SavedContent(o, t) ==
    IF o.name = "update_account_usage"
    THEN update_account_usage(o.content, o.index, t)
    ELSE IF o.name = "mark_account_rate_limited"
    THEN mark_account_rate_limited(o.content, o.index, o.wait, t)
    ELSE reset_rate_limits(o.content, t)

\* the cooldowns recorded and not reset once the save of o has completed
MarkedAfter(o, t) ==
    IF o.name = "mark_account_rate_limited"
    THEN [k \in 1..Len(marked) |->
             IF k = o.index + 1 THEN t + o.wait ELSE marked[k]]
    ELSE IF o.name = "reset_rate_limits"
    THEN [k \in 1..Len(marked) |-> -1]
    ELSE marked

OthersBusy(w) == \E v \in Workers : v # w /\ op[v].phase # "idle"

\* the request w enters an operation and its load returns; the requests
\* without an operation in progress are alike, the first of them enters
BeginOp(w, q, readable) ==
    /\ op[w].phase = "idle"
    /\ \A v \in Workers : v < w => op[v].phase # "idle"
    /\ calls < MaxCalls
    /\ calls' = calls + 1
    /\ op' = [v \in Workers |->
                 IF v = w
                 THEN [name |-> q.name, phase |-> "loaded", index |-> q.index,
                       wait |-> q.wait, content |-> LoadedFile(file, readable),
                       overlapped |-> OthersBusy(w)]
                 ELSE IF op[v].phase # "idle"
                      THEN [op[v] EXCEPT !.overlapped = TRUE]
                      ELSE op[v]]
    /\ raced' = (raced \/ OthersBusy(w))
    /\ UNCHANGED <<file, now, fstate, ids0, marked>>
    /\ UNCHANGED <<callVars, sinceVars, topVars, statVars, mergeVars, sumVars>>

InitPool ==
    /\ file \in PoolFiles
    /\ now = 0
    /\ CallIdle
    /\ SinceIdle
    /\ TopIdle
    /\ fstate = "ok"
    /\ op = [w \in Workers |-> IdleOp]
    /\ calls = 0
    /\ ids0 = [k \in 1..Len(file.accounts) |-> file.accounts[k].api_id]
    /\ marked = [k \in 1..Len(file.accounts) |-> -1]
    /\ raced = FALSE
    /\ StatsIdle
    /\ MergeIdle
    /\ SumIdle

\* load_accounts() reads and parses the file
PoolLoad ==
    \E w \in Workers, q \in PoolRequests :
        /\ fstate = "ok"
        /\ BeginOp(w, q, TRUE)

\* load_accounts() hits the except branch: the file is being rewritten or
\* holds no valid JSON, or the read fails
PoolLoadFails ==
    \E w \in Workers, q \in PoolRequests :
        /\ op[w].phase = "idle"
        /\ BeginOp(w, q, FALSE)

\* the operation returns without saving
PoolReturn ==
    \E w \in Workers :
        /\ op[w].phase = "loaded"
        /\ ~WillSave(op[w])
        /\ op' = [op EXCEPT ![w] = IdleOp]
        /\ UNCHANGED <<file, now, fstate, calls, ids0, marked, raced>>
        /\ UNCHANGED <<callVars, sinceVars, topVars, statVars, mergeVars, sumVars>>

\* save_accounts: open(self.accounts_file, 'w') truncates the file
PoolOpen ==
    \E w \in Workers :
        /\ op[w].phase = "loaded"
        /\ WillSave(op[w])
        /\ op' = [op EXCEPT ![w].phase = "writing"]
        /\ fstate' = "truncated"
        /\ UNCHANGED <<file, now, calls, ids0, marked, raced>>
        /\ UNCHANGED <<callVars, sinceVars, topVars, statVars, mergeVars, sumVars>>

\* save_accounts: the close writes the JSON text from offset 0
PoolDump ==
    \E w \in Workers :
        /\ op[w].phase = "writing"
        /\ file' = SavedContent(op[w], now)
        /\ fstate' = "ok"
        /\ marked' = MarkedAfter(op[w], now)
        /\ op' = [op EXCEPT ![w] = IdleOp]
        /\ UNCHANGED <<now, calls, ids0, raced>>
        /\ UNCHANGED <<callVars, sinceVars, topVars, statVars, mergeVars, sumVars>>

\* save_accounts: another request wrote the file after this one opened it,
\* and the text written now is shorter than the text already there, whose
\* tail stays behind it
PoolDumpGarbled ==
    \E w \in Workers :
        /\ op[w].phase = "writing"
        /\ fstate # "truncated"
        /\ fstate' = "garbled"
        /\ op' = [op EXCEPT ![w] = IdleOp]
        /\ UNCHANGED <<file, now, calls, ids0, marked, raced>>
        /\ UNCHANGED <<callVars, sinceVars, topVars, statVars, mergeVars, sumVars>>

NextPool ==
    \/ PoolLoad
    \/ PoolLoadFails
    \/ PoolReturn
    \/ PoolOpen
    \/ PoolDump
    \/ PoolDumpGarbled

SpecPool == InitPool /\ [][NextPool]_vars

\* ----------------------------- helper.generate_message_statistics (SpecStats)
MaxMsgs == 2          \* messages in the list handed to the function

\* frequency_hourly = [0 for _ in range(24)]
HourSlots == 24

Weekdays == {"monday", "tuesday", "wednesday", "thursday", "friday",
             "saturday", "sunday"}

Words == {"urgent", "sale"}

\* timestamp_raw: a string datetime.fromisoformat rejects (or a missing key),
\* or an ISO timestamp, kept as the hour and weekday it parses to
StampBad == [ok |-> FALSE, hour |-> 0, weekday |-> "none"]
Stamp(h, d) == [ok |-> TRUE, hour |-> h, weekday |-> d]

\* A message dict without its id.  username "" is None; hits are the words
\* of Words that occur in text, urls what extract_links(text) returns,
\* mention whether text holds an @-reference; has_id, the 'message_id' key.
Shape(ts, u, fn, hits, urls, mention, has_id) ==
    [timestamp_raw |-> ts, username |-> u, first_name |-> fn, hits |-> hits,
     urls |-> urls, mention |-> mention, has_id |-> has_id]

\* the shapes that give a complete entry in every accumulator
MergeShapes ==
    {Shape(Stamp(0, "monday"), "alice", "", {"urgent"}, <<"http://f">>, FALSE, TRUE),
     Shape(Stamp(23, "sunday"), "bob", "", {}, <<"http://a">>, FALSE, TRUE),
     Shape(Stamp(0, "monday"), "alice", "Al", {}, <<>>, TRUE, TRUE)}

Shapes ==
    MergeShapes \cup
    {Shape(Stamp(23, "sunday"), "", "", {}, <<>>, FALSE, TRUE),
     Shape(Stamp(0, "monday"), "alice", "", {"urgent"}, <<>>, FALSE, TRUE),
     Shape(StampBad, "bob", "", {"urgent"}, <<"http://b">>, TRUE, TRUE),
     Shape(Stamp(0, "monday"), "bob", "", {"urgent"}, <<"http://c">>, FALSE, FALSE),
     Shape(Stamp(23, "sunday"), "alice", "", {"urgent", "sale"},
           <<"http://d", "www.e">>, FALSE, TRUE)}

\* the messages of a list carry the ids base + 1, base + 2, ...; id 0 stands
\* for a dict without the key
WithMessageIds(shapes, base) ==
    [k \in 1..Len(shapes) |->
        [timestamp_raw |-> shapes[k].timestamp_raw,
         username |-> shapes[k].username,
         first_name |-> shapes[k].first_name,
         hits |-> shapes[k].hits,
         urls |-> shapes[k].urls,
         mention |-> shapes[k].mention,
         message_id |-> IF shapes[k].has_id THEN base + k ELSE 0]]

TriggerSets == SUBSET Words \ {{}}

\* the accumulators before the loop
EmptyAcc(tw) ==
    [trigger_frequency |-> [w \in tw |-> [count |-> 0, message_ids |-> <<>>]],
     frequency_hourly |-> [h \in 1..HourSlots |-> 0],
     frequency_weekday |-> [d \in Weekdays |-> 0],
     frequency_user |-> <<>>,
     links |-> <<>>]

\* position of username among the keys of the dict, 0 when absent
RECURSIVE UserIndex(_, _, _)
UserIndex(users, username, k) ==
    IF k > Len(users) THEN 0
    ELSE IF users[k].username = username THEN k
    ELSE UserIndex(users, username, k + 1)

\* frequency_user[username]: displayName and username set, messageCount += n
CountUser(users, username, display_name, n) ==
    LET k == UserIndex(users, username, 1) IN
    IF k = 0
    THEN Append(users, [displayName |-> display_name, username |-> username,
                        messageCount |-> n])
    ELSE [users EXCEPT ![k].displayName = display_name,
                       ![k].messageCount = @ + n]

\* datetime.fromisoformat(message['timestamp_raw']) returns
Parses(m) == m.timestamp_raw.ok

\* lines 25-26: the hour slot and the weekday of the parsed time
CountTime(a, m) ==
    [a EXCEPT !.frequency_hourly[m.timestamp_raw.hour + 1] = @ + 1,
              !.frequency_weekday[m.timestamp_raw.weekday] = @ + 1]

\* lines 28-62: the users, the trigger words and the links
CountContent(a, m, tw) ==
    LET username == IF m.username = "" THEN "null" ELSE m.username
        display_name == IF m.first_name = "" THEN username ELSE m.first_name
    IN  [a EXCEPT
            !.frequency_user = CountUser(@, username, display_name, 1),
            !.trigger_frequency =
                [w \in tw |->
                    IF w \in m.hits
                    THEN [count |-> @[w].count + 1,
                          message_ids |-> Append(@[w].message_ids, m.message_id)]
                    ELSE @[w]],
            !.links = IF m.urls # <<>>
                      THEN Append(@, [message_id |-> m.message_id,
                                      links |-> m.urls])
                      ELSE @]

\* (variant: the id is read before the time is counted)
MutLoopBody(a, m, tw) ==
    IF ~Parses(m) THEN a
    ELSE IF m.message_id = 0 THEN a
    ELSE CountContent(CountTime(a, m), m, tw)

\* one round of the for loop: the try block up to the statement that raises
LoopBody(a, m, tw) ==
    IF ~Parses(m) THEN a
    ELSE IF m.message_id = 0 THEN CountTime(a, m)
    ELSE CountContent(CountTime(a, m), m, tw)

\* sorted(..., key=messageCount, reverse=True): stable, descending
RECURSIVE InsertUserDesc(_, _)
InsertUserDesc(sorted, u) ==
    IF sorted = <<>> THEN <<u>>
    ELSE IF u.messageCount > Head(sorted).messageCount
         THEN <<u>> \o sorted
         ELSE <<Head(sorted)>> \o InsertUserDesc(Tail(sorted), u)

RECURSIVE SortUsersInto(_, _)
SortUsersInto(sorted, rest) ==
    IF rest = <<>> THEN sorted
    ELSE SortUsersInto(InsertUserDesc(sorted, Head(rest)), Tail(rest))

\* lines 67-87: the returned dict
ReportOf(a) ==
    [trigger_frequency |-> a.trigger_frequency,
     frequency_hourly |-> a.frequency_hourly,
     frequency_weekday |-> a.frequency_weekday,
     user_frequency |-> SortUsersInto(<<>>, a.frequency_user),
     links |-> a.links]

RECURSIVE LoopFrom(_, _, _, _)
LoopFrom(a, msgs, k, tw) ==
    IF k > Len(msgs) THEN a
    ELSE LoopFrom(LoopBody(a, msgs[k], tw), msgs, k + 1, tw)

generate_message_statistics(msgs, tw) ==
    ReportOf(LoopFrom(EmptyAcc(tw), msgs, 1, tw))

\* app.py: message_analysis.get('important_messages', {})
important_messages(r) ==
    IF "important_messages" \in DOMAIN r THEN r.important_messages ELSE {}

InitStats ==
    /\ file = [accounts |-> <<>>, current_index |-> 0, updated_at |-> 0]
    /\ now = 0
    /\ CallIdle
    /\ SinceIdle
    /\ TopIdle
    /\ WorkIdle
    /\ MergeIdle
    /\ SumIdle
    /\ \E sh \in SeqsUpTo(Shapes, MaxMsgs) : batch = WithMessageIds(sh, 0)
    /\ trigger_words \in TriggerSets
    /\ spos = 0
    /\ acc = EmptyAcc(trigger_words)
    /\ report = <<>>
    /\ stpc = "loop"

\* a round of the loop whose try block runs to its end
StatsCount ==
    /\ stpc = "loop"
    /\ spos < Len(batch)
    /\ Parses(batch[spos + 1])
    /\ batch[spos + 1].message_id # 0
    /\ acc' = LoopBody(acc, batch[spos + 1], trigger_words)
    /\ spos' = spos + 1
    /\ UNCHANGED <<batch, trigger_words, report, stpc>>
    /\ UNCHANGED <<poolVars, callVars, sinceVars, topVars, workVars, mergeVars, sumVars>>

\* a round in which fromisoformat (or the key lookup before it) raises
StatsSkip ==
    /\ stpc = "loop"
    /\ spos < Len(batch)
    /\ ~Parses(batch[spos + 1])
    /\ acc' = LoopBody(acc, batch[spos + 1], trigger_words)
    /\ spos' = spos + 1
    /\ UNCHANGED <<batch, trigger_words, report, stpc>>
    /\ UNCHANGED <<poolVars, callVars, sinceVars, topVars, workVars, mergeVars, sumVars>>

\* a round in which message['message_id'] raises KeyError
StatsKeyError ==
    /\ stpc = "loop"
    /\ spos < Len(batch)
    /\ Parses(batch[spos + 1])
    /\ batch[spos + 1].message_id = 0
    /\ acc' = LoopBody(acc, batch[spos + 1], trigger_words)
    /\ spos' = spos + 1
    /\ UNCHANGED <<batch, trigger_words, report, stpc>>
    /\ UNCHANGED <<poolVars, callVars, sinceVars, topVars, workVars, mergeVars, sumVars>>

\* the loop is over: the users are sorted and the dict is returned
StatsReturn ==
    /\ stpc = "loop"
    /\ spos = Len(batch)
    /\ report' = ReportOf(acc)
    /\ stpc' = "returned"
    /\ UNCHANGED <<batch, trigger_words, spos, acc>>
    /\ UNCHANGED <<poolVars, callVars, sinceVars, topVars, workVars, mergeVars, sumVars>>

\* ------------------------------- helper.merge_message_statistics (SpecMerge)
MaxBatch == 2         \* messages behind each of the merged reports

\* (variant: the entry of stats1 is kept when both hold the word)
MutMergeTriggers(t1, t2) ==
    [w \in (DOMAIN t1) \cup (DOMAIN t2) |->
        IF w \in DOMAIN t1 THEN t1[w] ELSE t2[w]]

\* lines 94-100: counts added, message_ids extended, stats1 first
MergeTriggers(t1, t2) ==
    [w \in (DOMAIN t1) \cup (DOMAIN t2) |->
        [count |-> (IF w \in DOMAIN t1 THEN t1[w].count ELSE 0)
                   + (IF w \in DOMAIN t2 THEN t2[w].count ELSE 0),
         message_ids |-> (IF w \in DOMAIN t1 THEN t1[w].message_ids ELSE <<>>)
                         \o (IF w \in DOMAIN t2 THEN t2[w].message_ids ELSE <<>>)]]

\* (variant: the larger of the two slots is kept)
MutMergeHourly(h1, h2) ==
    [i \in 1..HourSlots |-> IF h1[i] > h2[i] THEN h1[i] ELSE h2[i]]

\* lines 103-106
MergeHourly(h1, h2) == [i \in 1..HourSlots |-> h1[i] + h2[i]]

\* (variant: a weekday counted in stats2 takes the count of stats2)
MutMergeWeekday(d1, d2) ==
    [d \in Weekdays |-> IF d2[d] > 0 THEN d2[d] ELSE d1[d]]

\* lines 109-112
MergeWeekday(d1, d2) == [d \in Weekdays |-> d1[d] + d2[d]]

\* lines 115-121: temp_users filled from the list of stats1, then of stats2
RECURSIVE MergeUsersInto(_, _)
MergeUsersInto(temp_users, users) ==
    IF users = <<>> THEN temp_users
    ELSE MergeUsersInto(
             CountUser(temp_users, Head(users).username,
                       Head(users).displayName, Head(users).messageCount),
             Tail(users))

\* lines 115-134
MergeUsers(u1, u2) ==
    SortUsersInto(<<>>, MergeUsersInto(MergeUsersInto(<<>>, u1), u2))

merge_message_statistics(stats1, stats2) ==
    [trigger_frequency |->
         MergeTriggers(stats1.trigger_frequency, stats2.trigger_frequency),
     frequency_hourly |->
         MergeHourly(stats1.frequency_hourly, stats2.frequency_hourly),
     frequency_weekday |->
         MergeWeekday(stats1.frequency_weekday, stats2.frequency_weekday),
     user_frequency |-> MergeUsers(stats1.user_frequency, stats2.user_frequency),
     links |-> stats1.links \o stats2.links]

\* ---------------------------- SpecStats, closed by the merge of two parts
\* the same list handed over in two parts: each part gets its own report
\* (helper.py lines 15-87) and merge_message_statistics (lines 90-141) joins
\* the two
StatsSplitMerge ==
    /\ stpc = "returned"
    /\ \E k \in 0..Len(batch) :
          stats' = <<generate_message_statistics(
                         SubSeq(batch, 1, k), trigger_words),
                     generate_message_statistics(
                         SubSeq(batch, k + 1, Len(batch)), trigger_words)>>
    /\ merged' = <<merge_message_statistics(stats'[1], stats'[2])>>
    /\ stpc' = "merged"
    /\ UNCHANGED <<batch, trigger_words, spos, acc, report, mpc>>
    /\ UNCHANGED <<poolVars, callVars, sinceVars, topVars, workVars, sumVars>>

NextStats ==
    \/ StatsCount
    \/ StatsSkip
    \/ StatsKeyError
    \/ StatsReturn
    \/ StatsSplitMerge

SpecStats == InitStats /\ [][NextStats]_vars

\* the reports of three batches with disjoint message ids
InitMerge ==
    /\ file = [accounts |-> <<>>, current_index |-> 0, updated_at |-> 0]
    /\ now = 0
    /\ CallIdle
    /\ SinceIdle
    /\ TopIdle
    /\ WorkIdle
    /\ batch = <<>>
    /\ trigger_words = Words
    /\ spos = 0
    /\ acc = <<>>
    /\ report = <<>>
    /\ stpc = "off"
    /\ \E sa \in SeqsUpTo(MergeShapes, MaxBatch),
          sb \in SeqsUpTo(MergeShapes, MaxBatch),
          sc \in SeqsUpTo(MergeShapes, MaxBatch) :
          stats = <<generate_message_statistics(WithMessageIds(sa, 0),
                                                trigger_words),
                    generate_message_statistics(WithMessageIds(sb, MaxBatch),
                                                trigger_words),
                    generate_message_statistics(WithMessageIds(sc, 2 * MaxBatch),
                                                trigger_words)>>
    /\ merged = <<>>
    /\ mpc = "input"
    /\ SumIdle

\* merge(merge(a, b), c) and merge(a, merge(b, c))
MergeThree ==
    /\ mpc = "input"
    /\ merged' = <<merge_message_statistics(
                       merge_message_statistics(stats[1], stats[2]), stats[3]),
                   merge_message_statistics(
                       stats[1], merge_message_statistics(stats[2], stats[3]))>>
    /\ mpc' = "three"
    /\ UNCHANGED stats
    /\ UNCHANGED <<poolVars, callVars, sinceVars, topVars, workVars, statVars, sumVars>>

\* merge(a, b) and merge(b, a)
MergeTwo ==
    /\ mpc = "input"
    /\ merged' = <<merge_message_statistics(stats[1], stats[2]),
                   merge_message_statistics(stats[2], stats[1])>>
    /\ mpc' = "two"
    /\ UNCHANGED stats
    /\ UNCHANGED <<poolVars, callVars, sinceVars, topVars, workVars, statVars, sumVars>>

\* merge(a, a)
MergeSelf ==
    /\ mpc = "input"
    /\ merged' = <<merge_message_statistics(stats[1], stats[1])>>
    /\ mpc' = "self"
    /\ UNCHANGED stats
    /\ UNCHANGED <<poolVars, callVars, sinceVars, topVars, workVars, statVars, sumVars>>

NextMerge ==
    \/ MergeThree
    \/ MergeTwo
    \/ MergeSelf

SpecMerge == InitMerge /\ [][NextMerge]_vars

\* ------------------- GPTSummarizer.summarize_combined_messages (SpecSum)
MaxDays == 22         \* calendar days the messages of one call span
MaxChunks == 4        \* chunks of one call of the Large strategy

\* len(all_messages) < 1000, len(all_messages) < 10000
SmallLimit == 1000
MediumLimit == 10000
\* daily_summaries[-20:], sorted(daily_summaries, ...)[:5]
DigestCut == 20
ActiveDaysCut == 5
\* _create_smart_chunks(messages, max_chunk_size=2000)
max_chunk_size == 2000

\* message counts around the two limits
MessageCounts == {0, 1, 999, 1000, 1001, 9999, 10000, 10001}

RECURSIVE SumSeq(_)
SumSeq(s) == IF s = <<>> THEN 0 ELSE Head(s) + SumSeq(Tail(s))

\* all_messages is kept as the number of messages of each calendar day, in
\* date order (the date of a day is its position), and the number of
\* messages whose timestamp _group_messages_by_period cannot parse.
\* p messages over d days: evenly, or all but one per day on the first day
DayCounts(p, d, skew) ==
    IF p = 0 \/ d = 0 THEN <<>>
    ELSE LET n == IF d < p THEN d ELSE p IN
         IF skew
         THEN [k \in 1..n |-> IF k = 1 THEN p - (n - 1) ELSE 1]
         ELSE [k \in 1..n |-> (p \div n) + (IF k <= p % n THEN 1 ELSE 0)]

\* n messages: u of them without a parseable timestamp (all of them when
\* d = 0), the others on d days
InputOf(n, u, d, skew) ==
    [days |-> DayCounts(n - u, d, skew),
     unparsed |-> n - SumSeq(DayCounts(n - u, d, skew))]

Inputs ==
    UNION {{InputOf(n, u, d, skew) :
                u \in {v \in {0, 1} : v <= n}, d \in 0..MaxDays, skew \in BOOLEAN} :
           n \in MessageCounts}

\* len(all_messages)
TotalMessages(in) == SumSeq(in.days) + in.unparsed

\* _group_messages_by_period, sorted by date: the messages of each day
time_periods(in) == in.days

\* (variant: the first test written len(all_messages) <= 1000)
MutSelectTier(n) ==
    IF n <= SmallLimit THEN "small"
    ELSE IF n < MediumLimit THEN "medium"
    ELSE "large"

\* lines 93-98
SelectTier(n) ==
    IF n < SmallLimit THEN "small"
    ELSE IF n < MediumLimit THEN "medium"
    ELSE "large"

\* config.SUPPORTED_LANGUAGES, two of its entries
SUPPORTED_LANGUAGES ==
    [l \in {"english", "hindi"} |->
        IF l = "english" THEN [english |-> "English", native |-> "English"]
        ELSE [english |-> "Hindi", native |-> "hindi-native"]]

\* the response_language values of the calls; app.py answers a language
\* that is not in the table with an error before the summarizer is called
Languages == {"english", "hindi"}

\* self.supported_languages.get(response_language.lower(), ...["english"])
LanguageInfo(l) ==
    IF l \in DOMAIN SUPPORTED_LANGUAGES THEN SUPPORTED_LANGUAGES[l]
    ELSE SUPPORTED_LANGUAGES["english"]

\* str.lower() on the English names of the table
Lower(name) == IF name = "English" THEN "english" ELSE "hindi"

\* the sentence the prompt builders add unless language_info['english']
\* lower-cases to "english", reduced to the language it names
LanguageInstruction(language_info) ==
    IF Lower(language_info.english) = "english" THEN ""
    ELSE language_info.english

\* the prompt of _summarize_small_dataset, reduced to its two counts
SmallPrompt(in, language_info) ==
    [kind |-> "small", total_messages |-> TotalMessages(in),
     periods |-> Len(time_periods(in)),
     language_instruction |-> LanguageInstruction(language_info)]

\* lines 165-194: one digest per day, in date order
DailySummaries(in) ==
    [d \in 1..Len(time_periods(in)) |->
        [date |-> d, message_count |-> time_periods(in)[d]]]

\* s[-n:]
LastN(s, n) == IF Len(s) <= n THEN s ELSE SubSeq(s, Len(s) - n + 1, Len(s))

\* _create_medium_synthesis_prompt; daily_summaries[0] needs a first digest
MediumPrompt(n, ds, language_info) ==
    [kind |-> "medium", total_messages |-> n,
     first_date |-> ds[1].date, last_date |-> ds[Len(ds)].date,
     total_days |-> Len(ds),
     most_active_days |-> Slice(SortByCountDescInto(<<>>, ds), ActiveDaysCut),
     digests |-> LastN(ds, DigestCut),
     language_instruction |-> LanguageInstruction(language_info)]

\* _create_analysis_prompt, reduced to its count
AnalysisPrompt(total_messages, language_info) ==
    [kind |-> "analysis", total_messages |-> total_messages,
     language_instruction |-> LanguageInstruction(language_info)]

\* a chunk's 'messages' is kept as the runs of messages it was extended by:
\* the date of the day and the number of its messages (the senders, and
\* with them the chunk's 'users', are left out)
EmptyChunk == [messages |-> <<>>, start_date |-> 0, end_date |-> 0]

\* len(chunk['messages'])
RECURSIVE MessagesIn(_)
MessagesIn(runs) ==
    IF runs = <<>> THEN 0 ELSE Head(runs).count + MessagesIn(Tail(runs))

\* (variant: the test written >= max_chunk_size)
MutExceeds(current, day_messages, size) ==
    /\ current.messages # <<>>
    /\ MessagesIn(current.messages) + day_messages >= size

\* line 395
Exceeds(current, day_messages, size) ==
    /\ current.messages # <<>>
    /\ MessagesIn(current.messages) + day_messages > size

\* lines 404-408
Extended(current, date, day_messages) ==
    [messages |-> Append(current.messages, [date |-> date, count |-> day_messages]),
     start_date |-> IF current.start_date = 0 THEN date ELSE current.start_date,
     end_date |-> date]

\* lines 391-417: the days from date k on, packed behind current
RECURSIVE PackDays(_, _, _, _)
PackDays(days, k, current, size) ==
    IF k > Len(days)
    THEN IF current.messages # <<>> THEN <<current>> ELSE <<>>
    ELSE IF Exceeds(current, days[k], size)
         THEN <<current>> \o
              PackDays(days, k + 1, Extended(EmptyChunk, k, days[k]), size)
         ELSE PackDays(days, k + 1, Extended(current, k, days[k]), size)

\* (variant: a first chunk larger than max_chunk_size is cut in two)
MutCreateSmartChunks(in, size) ==
    LET cs == PackDays(time_periods(in), 1, EmptyChunk, size) IN
    IF cs # <<>> /\ MessagesIn(cs[1].messages) > size /\ Len(cs[1].messages) = 1
    THEN LET r == cs[1].messages[1] IN
         <<[cs[1] EXCEPT !.messages = <<[date |-> r.date, count |-> size]>>],
           [cs[1] EXCEPT !.messages = <<[date |-> r.date, count |-> r.count - size]>>]>>
         \o Tail(cs)
    ELSE cs

create_smart_chunks(in, size) ==
    PackDays(time_periods(in), 1, EmptyChunk, size)

\* the calls of the Large strategy are those with MaxChunks chunks at most
CallInputs ==
    {in \in Inputs :
        \/ TotalMessages(in) < MediumLimit
        \/ Len(create_smart_chunks(in, max_chunk_size)) <= MaxChunks}

\* lines 297-317: the template names no language
ChunkPrompt(chunk_data) ==
    [kind |-> "large", variant |-> "chunk",
     start_date |-> chunk_data.start_date, end_date |-> chunk_data.end_date,
     messages |-> MessagesIn(chunk_data.messages),
     language_instruction |-> ""]

\* (variant: chunk_id counted from 0)
MutChunkSummary(k, chunk_data, content) ==
    [chunk_id |-> k,
     period |-> <<chunk_data.start_date, chunk_data.end_date>>,
     message_count |-> MessagesIn(chunk_data.messages),
     summary |-> content]

\* lines 330-335, for the chunk at index k of enumerate(chunks); a summary
\* text is kept as its length
ChunkSummary(k, chunk_data, content) ==
    [chunk_id |-> k + 1,
     period |-> <<chunk_data.start_date, chunk_data.end_date>>,
     message_count |-> MessagesIn(chunk_data.messages),
     summary |-> content]

\* _create_synthesis_prompt; chunk_summaries[0] needs a first summary
SynthesisPrompt(total_messages, cs, language_info) ==
    [kind |-> "large", variant |-> "synthesis",
     total_messages |-> total_messages,
     coverage |-> <<cs[1].period[1], cs[Len(cs)].period[2]>>,
     summaries |-> cs,
     language_instruction |-> LanguageInstruction(language_info)]

\* cs['summary'][:200] + "..."
SummaryBudget == 200
Compressed(summary) ==
    (IF summary > SummaryBudget THEN SummaryBudget ELSE summary) + 3

\* _create_compressed_synthesis_prompt
CompressedPrompt(total_messages, cs, language_info) ==
    [kind |-> "large", variant |-> "compressed",
     total_messages |-> total_messages,
     summaries |-> [k \in 1..Len(cs) |->
                       [period |-> cs[k].period,
                        summary |-> Compressed(cs[k].summary)]],
     language_instruction |-> LanguageInstruction(language_info)]

\* if synthesis_tokens > 100000
TokenCeiling == 100000

\* (variant: the test written >= 100000)
MutUseCompressed(tokens) == tokens >= TokenCeiling

\* line 351
UseCompressed(tokens) == tokens > TokenCeiling

\* _count_tokens(final_prompt) is tiktoken's count of the text, or
\* len(text) // 4 when tiktoken raises: a number the service's answers and
\* the encoder decide, drawn here
TokenCounts == {0, TokenCeiling, TokenCeiling + 1}

\* lengths of the texts the completion service answers with
SummaryLengths == {SummaryBudget, SummaryBudget + 1}

\* (variant: the synthesis follows the first chunk)
MutLoopOver == chunk_i >= 1 \/ chunks = <<>>

\* the for loop of line 294 has gone through every chunk
LoopOver == chunk_i = Len(chunks)

InitSum ==
    /\ file = [accounts |-> <<>>, current_index |-> 0, updated_at |-> 0]
    /\ now = 0
    /\ CallIdle
    /\ SinceIdle
    /\ TopIdle
    /\ WorkIdle
    /\ StatsIdle
    /\ MergeIdle
    /\ input \in CallInputs
    /\ response_language \in Languages
    /\ tier = "none"
    /\ daily_summaries = <<>>
    /\ chunks = <<>>
    /\ chunk_i = 0
    /\ chunk_summaries = <<>>
    /\ synthesis_tokens = -1
    /\ completions = <<>>
    /\ responses = <<>>
    /\ outcome = "none"
    /\ supc = "start"

\* lines 93-98: the strategy is entered
SumSelect ==
    /\ supc = "start"
    /\ tier' = SelectTier(TotalMessages(input))
    /\ supc' = tier'
    /\ UNCHANGED <<input, response_language, daily_summaries, chunks, chunk_i,
                   chunk_summaries, synthesis_tokens, completions, responses,
                   outcome>>
    /\ UNCHANGED <<poolVars, callVars, sinceVars, topVars, workVars, statVars, mergeVars>>

\* analyze_telegram_group up to its completion call
AnalyzeCall ==
    /\ supc = "start"
    /\ completions' = Append(completions,
                             [model |-> "gpt-4o",
                              prompt |-> AnalysisPrompt(TotalMessages(input),
                                             LanguageInfo(response_language))])
    /\ supc' = "call"
    /\ UNCHANGED <<input, response_language, tier, daily_summaries, chunks,
                   chunk_i, chunk_summaries, synthesis_tokens, responses,
                   outcome>>
    /\ UNCHANGED <<poolVars, callVars, sinceVars, topVars, workVars, statVars, mergeVars>>

\* _summarize_small_dataset up to its completion call
SmallCall ==
    /\ supc = "small"
    /\ completions' = Append(completions,
                             [model |-> "gpt-3.5-turbo",
                              prompt |-> SmallPrompt(input,
                                             LanguageInfo(response_language))])
    /\ supc' = "call"
    /\ UNCHANGED <<input, response_language, tier, daily_summaries, chunks,
                   chunk_i, chunk_summaries, synthesis_tokens, responses,
                   outcome>>
    /\ UNCHANGED <<poolVars, callVars, sinceVars, topVars, workVars, statVars, mergeVars>>

\* _summarize_medium_dataset, first pass
MediumDigests ==
    /\ supc = "medium"
    /\ daily_summaries' = DailySummaries(input)
    /\ supc' = "medium_prompt"
    /\ UNCHANGED <<input, response_language, tier, chunks, chunk_i,
                   chunk_summaries, synthesis_tokens, completions, responses,
                   outcome>>
    /\ UNCHANGED <<poolVars, callVars, sinceVars, topVars, workVars, statVars, mergeVars>>

\* _create_medium_synthesis_prompt without a digest: daily_summaries[0]
\* raises IndexError, which summarize_combined_messages logs and re-raises
MediumIndexError ==
    /\ supc = "medium_prompt"
    /\ daily_summaries = <<>>
    /\ outcome' = "IndexError"
    /\ supc' = "done"
    /\ UNCHANGED <<input, response_language, tier, daily_summaries, chunks,
                   chunk_i, chunk_summaries, synthesis_tokens, completions,
                   responses>>
    /\ UNCHANGED <<poolVars, callVars, sinceVars, topVars, workVars, statVars, mergeVars>>

\* _summarize_medium_dataset, second pass up to its completion call
MediumCall ==
    /\ supc = "medium_prompt"
    /\ daily_summaries # <<>>
    /\ completions' = Append(completions,
                             [model |-> "gpt-4o-mini",
                              prompt |-> MediumPrompt(TotalMessages(input),
                                             daily_summaries,
                                             LanguageInfo(response_language))])
    /\ supc' = "call"
    /\ UNCHANGED <<input, response_language, tier, daily_summaries, chunks,
                   chunk_i, chunk_summaries, synthesis_tokens, responses,
                   outcome>>
    /\ UNCHANGED <<poolVars, callVars, sinceVars, topVars, workVars, statVars, mergeVars>>

\* the last completion call of the strategy (or of the analysis) returns
CompletionReturns ==
    /\ supc = "call"
    /\ \E content \in SummaryLengths :
          responses' = Append(responses,
                              [status |-> "returned", content |-> content])
    /\ outcome' = "returned"
    /\ supc' = "done"
    /\ UNCHANGED <<input, response_language, tier, daily_summaries, chunks,
                   chunk_i, chunk_summaries, synthesis_tokens, completions>>
    /\ UNCHANGED <<poolVars, callVars, sinceVars, topVars, workVars, statVars, mergeVars>>

\* the call raises; the exception is logged and re-raised
CompletionRaises ==
    /\ supc = "call"
    /\ responses' = Append(responses, [status |-> "raised", content |-> 0])
    /\ outcome' = "APIError"
    /\ supc' = "done"
    /\ UNCHANGED <<input, response_language, tier, daily_summaries, chunks,
                   chunk_i, chunk_summaries, synthesis_tokens, completions>>
    /\ UNCHANGED <<poolVars, callVars, sinceVars, topVars, workVars, statVars, mergeVars>>

\* _summarize_large_dataset, lines 289-292
LargeChunks ==
    /\ supc = "large"
    /\ chunks' = create_smart_chunks(input, max_chunk_size)
    /\ chunk_i' = 0
    /\ chunk_summaries' = <<>>
    /\ supc' = "large_loop"
    /\ UNCHANGED <<input, response_language, tier, daily_summaries,
                   synthesis_tokens, completions, responses, outcome>>
    /\ UNCHANGED <<poolVars, callVars, sinceVars, topVars, workVars, statVars, mergeVars>>

\* lines 294-328: the prompt of the next chunk is built and its call issued
ChunkCall ==
    /\ supc = "large_loop"
    /\ chunk_i < Len(chunks)
    /\ completions' = Append(completions,
                             [model |-> "gpt-4o-mini",
                              prompt |-> ChunkPrompt(chunks[chunk_i + 1])])
    /\ supc' = "chunk_call"
    /\ UNCHANGED <<input, response_language, tier, daily_summaries, chunks,
                   chunk_i, chunk_summaries, synthesis_tokens, responses,
                   outcome>>
    /\ UNCHANGED <<poolVars, callVars, sinceVars, topVars, workVars, statVars, mergeVars>>

\* lines 330-335: the call returned and its summary is appended
ChunkReturns ==
    /\ supc = "chunk_call"
    /\ \E content \in SummaryLengths :
          /\ responses' = Append(responses,
                                 [status |-> "returned", content |-> content])
          /\ chunk_summaries' =
                Append(chunk_summaries,
                       ChunkSummary(chunk_i, chunks[chunk_i + 1], content))
    /\ chunk_i' = chunk_i + 1
    /\ supc' = "large_loop"
    /\ UNCHANGED <<input, response_language, tier, daily_summaries, chunks,
                   synthesis_tokens, completions, outcome>>
    /\ UNCHANGED <<poolVars, callVars, sinceVars, topVars, workVars, statVars, mergeVars>>

\* lines 337-339: the call, or the reading of its answer, raised; the
\* exception is logged and the loop continues
ChunkRaises ==
    /\ supc = "chunk_call"
    /\ responses' = Append(responses, [status |-> "raised", content |-> 0])
    /\ chunk_i' = chunk_i + 1
    /\ supc' = "large_loop"
    /\ UNCHANGED <<input, response_language, tier, daily_summaries, chunks,
                   chunk_summaries, synthesis_tokens, completions, outcome>>
    /\ UNCHANGED <<poolVars, callVars, sinceVars, topVars, workVars, statVars, mergeVars>>

\* _create_synthesis_prompt without a chunk summary: chunk_summaries[0]
\* (line 514) raises IndexError, which summarize_combined_messages logs and
\* re-raises
SynthesisIndexError ==
    /\ supc = "large_loop"
    /\ LoopOver
    /\ chunk_summaries = <<>>
    /\ outcome' = "IndexError"
    /\ supc' = "done"
    /\ UNCHANGED <<input, response_language, tier, daily_summaries, chunks,
                   chunk_i, chunk_summaries, synthesis_tokens, completions,
                   responses>>
    /\ UNCHANGED <<poolVars, callVars, sinceVars, topVars, workVars, statVars, mergeVars>>

\* lines 342-373: the synthesis prompt is built, its tokens are counted, the
\* compressed prompt replaces it when they exceed the ceiling, and the final
\* call is issued
SynthesisCall ==
    /\ supc = "large_loop"
    /\ LoopOver
    /\ chunk_summaries # <<>>
    /\ \E tokens \in TokenCounts :
          /\ synthesis_tokens' = tokens
          /\ completions' =
                Append(completions,
                       [model |-> "gpt-4o",
                        prompt |->
                            IF UseCompressed(tokens)
                            THEN CompressedPrompt(TotalMessages(input),
                                     chunk_summaries,
                                     LanguageInfo(response_language))
                            ELSE SynthesisPrompt(TotalMessages(input),
                                     chunk_summaries,
                                     LanguageInfo(response_language))])
    /\ supc' = "call"
    /\ UNCHANGED <<input, response_language, tier, daily_summaries, chunks,
                   chunk_i, chunk_summaries, responses, outcome>>
    /\ UNCHANGED <<poolVars, callVars, sinceVars, topVars, workVars, statVars, mergeVars>>

NextSum ==
    \/ SumSelect
    \/ AnalyzeCall
    \/ SmallCall
    \/ MediumDigests
    \/ MediumIndexError
    \/ MediumCall
    \/ CompletionReturns
    \/ CompletionRaises
    \/ LargeChunks
    \/ ChunkCall
    \/ ChunkReturns
    \/ ChunkRaises
    \/ SynthesisIndexError
    \/ SynthesisCall

SpecSum == InitSum /\ [][NextSum]_vars

\* ------------------------------------------------------------ properties
usage_count(accounts, i) == accounts[i + 1].usage_count

Indices(accounts) == 0..(Len(accounts) - 1)

\* a stored rate_limited_until that parses as a timestamp later than t
LimitedAfter(account, t) ==
    /\ account.rate_limited_until.kind \in {"naive", "aware"}
    /\ account.rate_limited_until.t > t

\* C1: in the state right after the selection (the file and the clock are
\* those the selection read), the identity get_next_available_account
\* returned does not carry a parseable rate_limited_until later than now.
C1_NeverReturnsRateLimited ==
    pc = "open" => ~LimitedAfter(file.accounts[account_index + 1], now)

\* C2: the identity returned is one whose rate limit has lapsed or was never
\* set, and among those identities it has the smallest usage_count and,
\* among equals, the lowest index.
C2_LeastUsedAmongLapsed ==
    pc = "open" =>
        LET S == {j \in Indices(file.accounts) :
                      ~LimitedAfter(file.accounts[j + 1], now)}
        IN  /\ account_index \in S
            /\ \A j \in S :
                 \/ usage_count(file.accounts, account_index)
                        < usage_count(file.accounts, j)
                 \/ /\ usage_count(file.accounts, account_index)
                          = usage_count(file.accounts, j)
                    /\ account_index <= j

\* C3: when the first selection of a call finds no identity (empty pool or
\* all rate-limited) the call has failed there and then: it is over after
\* that one attempt, with no backoff sleep and no session opened.
C3_NoIdentityFailsImmediately ==
    trace.first_select \in PoolErrors =>
        /\ pc = "done"
        /\ trace.attempts = 1
        /\ trace.sleeps = 0
        /\ trace.sessions = 0

\* the wait recorded for the identity of the attempt that ended by
\* FloodWaitError: rate_limited_until = (now at the handler) + w
FloodRecorded ==
    trace.flood_index # -1 =>
        file.accounts[trace.flood_index + 1].rate_limited_until
            = RlNaive(trace.flood_at + trace.flood_wait)

C5_AtMostThreeAttempts ==
    /\ trace.attempts <= max_retries
    /\ retry_count = trace.floods + trace.errors
    /\ retry_count <= max_retries
    /\ (pc \in {"loop", "sleep"} /\ trace.attempts = max_retries)
           => retry_count = max_retries
    /\ pc = "done" =>
           \/ result # -1 /\ raised = NoRaise
           \/ result = -1 /\ raised = ChannelNotFound
           \/ /\ result = -1
              /\ raised.type \in {"FailedAfter", "FailedAllRetries"}
              /\ trace.attempts = max_retries
              /\ retry_count = max_retries

\* C5 witness: a call exhausted by a mix of rate-limit signals and errors.
C5_Witness ==
    /\ pc = "done"
    /\ raised.type = "FailedAfter"
    /\ trace.floods >= 1
    /\ trace.errors >= 1

Exhausted == pc = "done" /\ raised.type \in {"FailedAfter", "FailedAllRetries"}

\* C6 as stated: the failure raised on exhaustion carries the error of the
\* last failed attempt, whether a rate-limit signal or another error.
C6_ExhaustedCarriesLastError ==
    Exhausted => raised.carries = trace.last_error

\* C6 amended: the failure raised on exhaustion carries the error of the
\* last failed attempt when that attempt ended by an error other than a
\* rate-limit signal; when it ended by a rate-limit signal the failure
\* raised carries no underlying error.
C6_ExhaustedCarriesLastOtherError ==
    Exhausted =>
        IF trace.last_error = "flood"
        THEN raised = FailedAllRetries
        ELSE raised.type = "FailedAfter" /\ raised.carries = trace.last_error

\* C6 witness: exhausted by an error of the channel client on the third
\* attempt, after a rate-limit signal earlier in the call.
C6_Witness ==
    /\ Exhausted
    /\ trace.last_error = "other"
    /\ trace.floods >= 1

\* C7: once an attempt has ended by a not-found-class error the call is
\* over as ChannelNotFound: the retry counter was not touched and no sleep
\* followed, so both still equal the number of earlier attempts.
C7_NotFoundFailsAtOnce ==
    trace.last_error \in {"not_found", "username"} =>
        /\ pc = "done"
        /\ raised = ChannelNotFound
        /\ retry_count = trace.attempts - 1
        /\ trace.sleeps = trace.attempts - 1

\* C7 witness: the not-found-class error arrives on the third attempt.
C7_Witness ==
    /\ pc = "done"
    /\ raised = ChannelNotFound
    /\ trace.attempts = 3
    /\ trace.last_error = "username"

UsageUnchanged(j) ==
    usage_count(file.accounts, j) = usage_count(trace.file0, j)

C9_SessionTornDown ==
    /\ session # -1 => (pc = "session" /\ session = account_index)
    /\ pc # "session" => session = -1
    /\ trace.sessions <= trace.attempts

\* C9 witness: a second session of the same call, opened after the first
\* one was left by a rate-limit signal.
C9_Witness ==
    /\ pc = "session"
    /\ trace.sessions = 2
    /\ trace.floods = 1

\* the position of the first yielded message at or before since, or one
\* past the last yielded message
StopAt ==
    LET n == Yielded(hist, limit)
        older == {k \in 1..n : hist[k].date <= since}
    IN  IF older = {} THEN n + 1
        ELSE CHOOSE k \in older : \A l \in older : k <= l

\* C10: the list _get_messages_since_async returns holds only messages
\* later than since, in ascending timestamp order, and exactly the text
\* messages the iterator yielded before the first one at or before since.
C10_OnlyNewerAscending ==
    spc = "returned" =>
        /\ \A k \in 1..Len(messages) :
               fromisoformat(messages[k].timestamp_raw) > since
        /\ \A k \in 1..(Len(messages) - 1) :
               fromisoformat(messages[k].timestamp_raw)
                   <= fromisoformat(messages[k + 1].timestamp_raw)
        /\ {messages[k].message_id : k \in 1..Len(messages)}
               = {hist[k].message_id : k \in {l \in 1..(StopAt - 1) : hist[l].text}}
        /\ Len(messages) = Cardinality({l \in 1..(StopAt - 1) : hist[l].text})

\* C10 witness: the loop broke on an older message after collecting two
\* messages of different timestamps.
C10_Witness ==
    /\ spc = "returned"
    /\ pos < Len(hist)
    /\ hist[pos + 1].date <= since
    /\ Len(messages) = 2
    /\ messages[1].timestamp_raw # messages[2].timestamp_raw

\* ---- C11
\* first position of a sender in the feed, and its number of messages
RECURSIVE FirstSeen(_, _, _)
FirstSeen(f, name, k) ==
    IF k > Len(f) THEN 0
    ELSE IF f[k] = name THEN k
    ELSE FirstSeen(f, name, k + 1)

MessagesOf(f, name) == Cardinality({k \in 1..Len(f) : f[k] = name})

SendersOf(f) == {f[k] : k \in 1..Len(f)}

\* C11: the returned top-50 list has at most 50 entries, one per sender with
\* the sender's message count and its rank, is ordered by message count
\* descending, orders equal counts by first appearance in the iteration, and
\* leaves out no sender with more messages than a listed one.
C11_Top50Ranked ==
    tpc = "returned" =>
        LET top == top_50_users IN
        /\ Len(top) <= 50
        /\ Len(top) = IF Cardinality(SendersOf(feed)) < 50
                      THEN Cardinality(SendersOf(feed)) ELSE 50
        /\ \A k \in 1..Len(top) :
              /\ top[k].rank = k
              /\ top[k].display_name \in SendersOf(feed)
              /\ top[k].message_count = MessagesOf(feed, top[k].display_name)
        /\ \A k \in 1..Len(top), l \in 1..Len(top) :
              k < l =>
                  /\ top[k].display_name # top[l].display_name
                  /\ top[k].message_count >= top[l].message_count
                  /\ top[k].message_count = top[l].message_count =>
                        FirstSeen(feed, top[k].display_name, 1)
                            < FirstSeen(feed, top[l].display_name, 1)
        /\ \A s \in SendersOf(feed) :
              (\A k \in 1..Len(top) : top[k].display_name # s) =>
                  \A k \in 1..Len(top) :
                      /\ MessagesOf(feed, s) <= top[k].message_count
                      /\ MessagesOf(feed, s) = top[k].message_count =>
                            FirstSeen(feed, top[k].display_name, 1)
                                < FirstSeen(feed, s, 1)

\* a feed of more than 50 senders was ranked: the list is cut at 50, holds
\* senders with equal and with different counts, and a sender tied with the
\* last entry is left out
C11_Witness ==
    /\ tpc = "returned"
    /\ Cardinality(SendersOf(feed)) > 50
    /\ Len(top_50_users) = 50
    /\ \E k \in 1..49 :
          top_50_users[k].message_count = top_50_users[k + 1].message_count
    /\ \E k \in 1..49 :
          top_50_users[k].message_count > top_50_users[k + 1].message_count
    /\ \E s \in SendersOf(feed) :
          /\ \A k \in 1..50 : top_50_users[k].display_name # s
          /\ MessagesOf(feed, s) = top_50_users[50].message_count

\* ---- C12
\* the step lowers the persisted usage_count of no identity the file holds
\* before and after it
UsageKept ==
    \A i \in 1..Len(file.accounts) :
        i <= Len(file'.accounts) =>
            file'.accounts[i].usage_count >= file.accounts[i].usage_count

\* the step completes the save of an operation during which no other
\* operation was in progress
SerialSave ==
    \E w \in Workers :
        /\ op[w].phase = "writing"
        /\ ~op[w].overlapped
        /\ op'[w].phase = "idle"

\* C12 (as stated): no step of any interleaving of the load and save steps
\* of concurrent pool operations lowers the persisted usage_count of an
\* identity.
C12_UsageNeverDecreases == [][UsageKept]_vars

\* C12 (amended): the save of a pool operation that ran alone, with no other
\* operation in progress between its load and its save, lowers the persisted
\* usage_count of no identity.
C12_UsageKeptWhenSerial == [][SerialSave => UsageKept]_vars

\* two operations ran one after the other, the second an update_account_usage
\* that is about to save a count above the one in the file
C12_Witness ==
    /\ calls = 2
    /\ \E w \in Workers :
          /\ op[w].phase = "writing"
          /\ ~op[w].overlapped
          /\ op[w].name = "update_account_usage"
          /\ SavedContent(op[w], now).accounts[op[w].index + 1].usage_count
                 > file.accounts[op[w].index + 1].usage_count
          /\ \A v \in Workers : v # w => op[v].phase = "idle"

\* ---- C13
PersistedIds == [k \in 1..Len(file.accounts) |-> file.accounts[k].api_id]

\* C13: whenever no pool operation is in progress, the persisted file is
\* readable and holds the identities the operator configured, in their
\* order, whatever the loads of the operations returned.
C13_IdentitiesKept ==
    (\A w \in Workers : op[w].phase = "idle") =>
        /\ fstate = "ok"
        /\ PersistedIds = ids0

\* ---- C14
RECURSIVE OnlyParseable(_)
OnlyParseable(msgs) ==
    IF msgs = <<>> THEN <<>>
    ELSE IF Parses(Head(msgs)) THEN <<Head(msgs)>> \o OnlyParseable(Tail(msgs))
    ELSE OnlyParseable(Tail(msgs))

\* C14: the returned hourly histogram has 24 slots that sum to the number of
\* input messages with a parseable timestamp, and the report is the one the
\* same call returns for the list without the unparseable messages.
C14_HistogramCountsParseable ==
    stpc = "returned" =>
        /\ Len(report.frequency_hourly) = 24
        /\ SumSeq(report.frequency_hourly) = Len(OnlyParseable(batch))
        /\ report = generate_message_statistics(OnlyParseable(batch), trigger_words)

\* a list whose first message has no parseable timestamp and whose second
\* has one was processed
C14_Witness ==
    /\ stpc = "returned"
    /\ Len(batch) = 2
    /\ ~Parses(batch[1])
    /\ Parses(batch[2])
    /\ SumSeq(report.frequency_hourly) = 1
    /\ report.user_frequency # <<>>

\* ---- C15
\* C15: for three reports over disjoint message ids, merging (a, b) first
\* and merging (b, c) first give the same report in every field.
C15_MergeAssociative ==
    mpc = "three" => merged[1] = merged[2]

\* ---- C16
\* the same elements with the same multiplicities, in any order
SameElements(s1, s2) ==
    /\ Len(s1) = Len(s2)
    /\ \A k \in 1..Len(s1) :
          Cardinality({j \in 1..Len(s1) : s1[j] = s1[k]})
              = Cardinality({j \in 1..Len(s2) : s2[j] = s1[k]})

\* username and messageCount of every user, as a set
UserCounts(users) ==
    {<<users[k].username, users[k].messageCount>> : k \in 1..Len(users)}

\* C16 (as stated): merge(a, b) equals merge(b, a) in every field.
C16_MergeCommutative ==
    mpc = "two" => merged[1] = merged[2]

\* C16 (amended): merge(a, b) and merge(b, a) agree on every trigger count,
\* hourly slot, weekday count and per-user message count, and hold the same
\* message ids per trigger word and the same link records up to order.
C16_MergeCommutativeUpToOrder ==
    mpc = "two" =>
        LET x == merged[1]
            y == merged[2]
        IN  /\ DOMAIN x.trigger_frequency = DOMAIN y.trigger_frequency
            /\ \A w \in DOMAIN x.trigger_frequency :
                  /\ x.trigger_frequency[w].count = y.trigger_frequency[w].count
                  /\ SameElements(x.trigger_frequency[w].message_ids,
                                  y.trigger_frequency[w].message_ids)
            /\ x.frequency_hourly = y.frequency_hourly
            /\ x.frequency_weekday = y.frequency_weekday
            /\ Len(x.user_frequency) = Len(y.user_frequency)
            /\ UserCounts(x.user_frequency) = UserCounts(y.user_frequency)
            /\ SameElements(x.links, y.links)

\* two reports with a trigger match each, a link each and a common user
\* under two display names were merged: the results differ in the order of
\* the id list and of the link list, and in the display name
C16_Witness ==
    /\ mpc = "two"
    /\ merged[1] # merged[2]
    /\ \E w \in DOMAIN merged[1].trigger_frequency :
          /\ stats[1].trigger_frequency[w].count > 0
          /\ stats[2].trigger_frequency[w].count > 0
          /\ merged[1].trigger_frequency[w].message_ids
                 # merged[2].trigger_frequency[w].message_ids
    /\ stats[1].links # <<>>
    /\ stats[2].links # <<>>
    /\ merged[1].links # merged[2].links
    /\ \E k \in 1..Len(merged[1].user_frequency),
          j \in 1..Len(merged[2].user_frequency) :
          /\ merged[1].user_frequency[k].username
                 = merged[2].user_frequency[j].username
          /\ merged[1].user_frequency[k].displayName
                 # merged[2].user_frequency[j].displayName

\* ---- C17
\* C17: merge(a, a) holds twice the trigger count of every word, twice every
\* hourly slot, twice every weekday count and twice the message count of
\* every user of a.
C17_SelfMergeDoubles ==
    mpc = "self" =>
        LET a == stats[1]
            x == merged[1]
        IN  /\ DOMAIN x.trigger_frequency = DOMAIN a.trigger_frequency
            /\ \A w \in DOMAIN a.trigger_frequency :
                  x.trigger_frequency[w].count = 2 * a.trigger_frequency[w].count
            /\ Len(x.frequency_hourly) = 24
            /\ \A i \in 1..24 : x.frequency_hourly[i] = 2 * a.frequency_hourly[i]
            /\ \A d \in Weekdays : x.frequency_weekday[d] = 2 * a.frequency_weekday[d]
            /\ Len(x.user_frequency) = Len(a.user_frequency)
            /\ \A k \in 1..Len(a.user_frequency) :
                  \E j \in 1..Len(x.user_frequency) :
                      /\ x.user_frequency[j].username = a.user_frequency[k].username
                      /\ x.user_frequency[j].messageCount
                             = 2 * a.user_frequency[k].messageCount

\* a report with a trigger match, two users and two used hour slots was
\* merged with itself
C17_Witness ==
    /\ mpc = "self"
    /\ Len(stats[1].user_frequency) = 2
    /\ \E w \in DOMAIN stats[1].trigger_frequency :
          stats[1].trigger_frequency[w].count > 0
    /\ stats[1].frequency_hourly[1] > 0
    /\ stats[1].frequency_hourly[24] > 0
    /\ merged[1] # stats[1]

\* ---- C18
\* what the spec calls important: a trigger word matched, a link, or an
\* @-reference
Important(m, tw) == m.hits \cap tw # {} \/ m.urls # <<>> \/ m.mention

\* C18: the important-message set read from the returned report holds
\* exactly the ids of the messages with a parseable timestamp that matched a
\* trigger word, contain a link or contain an @-reference.
C18_ImportantSetReturned ==
    stpc = "returned" =>
        important_messages(report) =
            {batch[k].message_id : k \in {j \in 1..Len(batch) :
                /\ Parses(batch[j])
                /\ batch[j].message_id # 0
                /\ Important(batch[j], trigger_words)}}

\* ---- C19
\* the strategy the message count calls for
TierRight ==
    LET n == TotalMessages(input) IN
    /\ tier = "small" <=> n < 1000
    /\ tier = "medium" <=> (1000 <= n /\ n < 10000)
    /\ tier = "large" <=> n >= 10000

\* C19: the strategy entered is Small when N < 1000, Medium when
\* 1000 <= N < 10000 and Large when N >= 10000; once entered it is never
\* left for another, and every completion call is one of that strategy.
C19_OneTierByCount ==
    [][/\ tier # "none" => tier' = tier
       /\ tier' # "none" =>
             /\ TierRight'
             /\ \A k \in 1..Len(completions') :
                   completions'[k].prompt.kind = tier']_vars

\* a call with exactly 1000 messages ran the Medium strategy to its return
C19_Witness ==
    /\ TotalMessages(input) = 1000
    /\ tier = "medium"
    /\ outcome = "returned"
    /\ Len(completions) = 1

\* ---- C20
\* C20: in the Medium strategy no completion call is issued while the day
\* digests are built, the whole call issues exactly one completion call, and
\* the prompt of that call lists the last 20 day digests at most, in date
\* order.
C20_MediumOneCallLast20 ==
    tier = "medium" =>
        /\ supc \in {"medium", "medium_prompt"} => completions = <<>>
        /\ supc = "done" =>
              /\ Len(completions) = 1
              /\ LET digests == completions[1].prompt.digests
                     ds == DailySummaries(input)
                 IN  /\ Len(digests) <= 20
                     /\ Len(digests) = IF Len(ds) < 20 THEN Len(ds) ELSE 20
                     /\ \A k \in 1..Len(digests) :
                           digests[k] = ds[Len(ds) - Len(digests) + k]
                     /\ \A k \in 1..(Len(digests) - 1) :
                           digests[k].date < digests[k + 1].date


\* ---- C21
\* values of max_chunk_size the chunking is examined with
ChunkSizes == {1, 2, 455, 1000, max_chunk_size}

\* the chunks that hold a message of day d
ChunksOf(cs, d) ==
    {j \in 1..Len(cs) :
        \E r \in 1..Len(cs[j].messages) : cs[j].messages[r].date = d}

\* messages of day d in one chunk
OfDay(chunk_data, d) ==
    MessagesIn(SelectSeq(chunk_data.messages, LAMBDA r : r.date = d))

\* every day lies in one chunk, with all its messages
DaysWhole(cs, days) ==
    \A d \in 1..Len(days) :
        /\ Cardinality(ChunksOf(cs, d)) = 1
        /\ \A j \in ChunksOf(cs, d) : OfDay(cs[j], d) = days[d]

\* the Large strategy has created its chunks
Chunked == tier = "large" /\ supc # "large"

\* C21: whatever the messages and max_chunk_size, every calendar day with
\* a parseable timestamp has all its messages in exactly one chunk, also a
\* day that alone holds more than max_chunk_size messages; so have the
\* chunks the Large strategy works on.
C21_DayNeverSplit ==
    /\ \A size \in ChunkSizes :
          DaysWhole(create_smart_chunks(input, size), time_periods(input))
    /\ Chunked => DaysWhole(chunks, time_periods(input))

\* chunks were created from messages whose first day alone exceeds
\* max_chunk_size and is followed by other days
C21_Witness ==
    /\ Chunked
    /\ Len(chunks) >= 2
    /\ Len(chunks[1].messages) = 1
    /\ chunks[1].messages[1].count > max_chunk_size
    /\ chunks[1].messages[1].count = time_periods(input)[1]


\* ---- C22
\* the prompt of a call is the prompt of one chunk, the k-th
CoversChunk(prompt, k) ==
    /\ prompt.variant = "chunk"
    /\ prompt.start_date = chunks[k].start_date
    /\ prompt.end_date = chunks[k].end_date
    /\ prompt.messages = MessagesIn(chunks[k].messages)

\* C22: in the Large strategy a call is issued only when every earlier call
\* has returned or raised; the k-th call is the call of the k-th chunk and
\* of that chunk alone; the synthesis call comes after them, once every
\* chunk's call has returned or raised, and nothing follows it.
C22_CallsInSeries ==
    tier = "large" =>
        /\ Len(responses) <= Len(completions)
        /\ Len(completions) <= Len(responses) + 1
        /\ Len(completions) <= Len(chunks) + 1
        /\ \A k \in 1..Len(completions) :
              IF k <= Len(chunks)
              THEN CoversChunk(completions[k].prompt, k)
              ELSE /\ completions[k].prompt.variant \in {"synthesis", "compressed"}
                   /\ Len(responses) >= Len(chunks)

\* three chunks or more were summarised one after the other, the synthesis
\* followed and returned
C22_Witness ==
    /\ tier = "large"
    /\ Len(chunks) >= 3
    /\ Len(completions) = Len(chunks) + 1
    /\ Len(responses) = Len(completions)
    /\ outcome = "returned"


\* ---- C23
\* the chunks whose call has returned, in chunk order
SucceededIds ==
    LET n == IF Len(responses) < Len(chunks) THEN Len(responses) ELSE Len(chunks)
    IN  SelectSeq([k \in 1..n |-> k], LAMBDA k : responses[k].status = "returned")

\* their summaries: what the service answered for each
SucceededSummaries ==
    [j \in 1..Len(SucceededIds) |->
        LET k == SucceededIds[j] IN
        [chunk_id |-> k,
         period |-> <<chunks[k].start_date, chunks[k].end_date>>,
         message_count |-> MessagesIn(chunks[k].messages),
         summary |-> responses[k].content]]

\* the synthesis prompt is made of these summaries and of no other
OverSucceeded(prompt) ==
    IF prompt.variant = "synthesis"
    THEN prompt.summaries = SucceededSummaries
    ELSE /\ prompt.variant = "compressed"
         /\ Len(prompt.summaries) = Len(SucceededSummaries)
         /\ \A j \in 1..Len(prompt.summaries) :
               /\ prompt.summaries[j].period = SucceededSummaries[j].period
               /\ prompt.summaries[j].summary =
                     Compressed(SucceededSummaries[j].summary)

\* C23: in the Large strategy the summaries kept are exactly those of the
\* chunks whose call returned, in chunk order; a raising call ends nothing:
\* the call of every chunk is issued, and when one chunk at least was
\* summarised the synthesis call is issued, over exactly those summaries.
C23_FailedChunkDropped ==
    tier = "large" /\ supc # "large" =>
        /\ chunk_summaries = SucceededSummaries
        /\ supc \in {"call", "done"} =>
              /\ Len(completions) >= Len(chunks)
              /\ SucceededIds # <<>> =>
                    /\ Len(completions) = Len(chunks) + 1
                    /\ OverSucceeded(completions[Len(chunks) + 1].prompt)
                    /\ outcome # "IndexError"

\* the calls of the first and third chunk raised, the call of the second
\* returned, and the synthesis over that one summary returned
C23_Witness ==
    /\ tier = "large"
    /\ Len(chunks) >= 3
    /\ supc = "done"
    /\ outcome = "returned"
    /\ responses[1].status = "raised"
    /\ responses[2].status = "returned"
    /\ responses[3].status = "raised"
    /\ Len(completions[Len(chunks) + 1].prompt.summaries) < Len(chunks)


\* ---- C24
\* C24: when the Large strategy ends and no chunk's call returned, one call
\* more than the chunks' was issued: the synthesis call, over no summary.
C24_SynthesisOverNoSummary ==
    tier = "large" /\ supc = "done" /\ SucceededIds = <<>> =>
        /\ Len(completions) = Len(chunks) + 1
        /\ completions[Len(chunks) + 1].prompt.variant
              \in {"synthesis", "compressed"}
        /\ completions[Len(chunks) + 1].prompt.summaries = <<>>


\* ---- C25
\* the calls issued with a synthesis prompt, full or compressed
SynthesisCalls ==
    {k \in 1..Len(completions) :
        /\ completions[k].prompt.kind = "large"
        /\ completions[k].prompt.variant \in {"synthesis", "compressed"}}

\* C25: once the Large strategy has estimated the tokens of its synthesis
\* prompt, exactly one synthesis call is issued; its prompt is the
\* compressed one, every chunk summary cut to 200 characters and "...",
\* exactly when the estimate exceeds 100000, and the full one otherwise;
\* model, message count, language and the chunks summarised are the same in
\* both cases.
C25_CompressedIffOverCeiling ==
    tier = "large" /\ synthesis_tokens # -1 =>
        /\ SynthesisCalls = {Len(chunks) + 1}
        /\ LET call == completions[Len(chunks) + 1]
               prompt == call.prompt
           IN  /\ prompt.variant = "compressed" <=> synthesis_tokens > 100000
               /\ prompt.variant = "synthesis" <=> synthesis_tokens <= 100000
               /\ call.model = "gpt-4o"
               /\ prompt.total_messages = TotalMessages(input)
               /\ prompt.language_instruction =
                     LanguageInstruction(LanguageInfo(response_language))
               /\ Len(prompt.summaries) = Len(chunk_summaries)
               /\ \A j \in 1..Len(chunk_summaries) :
                     /\ prompt.summaries[j].period = chunk_summaries[j].period
                     /\ prompt.summaries[j].summary =
                           IF synthesis_tokens > 100000
                           THEN (IF chunk_summaries[j].summary > 200 THEN 200
                                 ELSE chunk_summaries[j].summary) + 3
                           ELSE chunk_summaries[j].summary

\* an estimate of 100001 tokens: the compressed prompt was sent, with a
\* summary of 201 characters cut to 200 and "...", and the call returned
C25_Witness ==
    /\ tier = "large"
    /\ synthesis_tokens = 100001
    /\ outcome = "returned"
    /\ completions[Len(completions)].prompt.variant = "compressed"
    /\ chunk_summaries[1].summary = 201
    /\ completions[Len(completions)].prompt.summaries[1].summary = 203


\* ---- C26
\* C26: every prompt sent, of whatever strategy or variant, carries an
\* instruction to answer in the requested language exactly when that
\* language is not English.
C26_EveryPromptLocalized ==
    \A k \in 1..Len(completions) :
        completions[k].prompt.language_instruction # ""
            <=> response_language # "english"


\* ---- C27
\* the step is the return of a get_next_available_account, and the identity
\* it returns is in no cooldown recorded and not reset
OutOfCooldown(w) ==
    (/\ op[w].name = "get_next_available_account"
     /\ op[w].phase = "loaded"
     /\ op'[w].phase = "idle") =>
        LET r == get_next_available_account(op[w].content, now) IN
        r.ok => marked[r.index + 1] <= now

\* C27 (as stated): under every interleaving of the load and save steps of
\* concurrent pool operations, once mark_account_rate_limited(i, w) has
\* saved, no get_next_available_account returns i before the w seconds are
\* over, unless reset_rate_limits has saved in between.
C27_CooldownHonoured == [][\A w \in Workers : OutOfCooldown(w)]_vars

\* C27 (amended): the same, for the pool operations of requests that run one
\* at a time, no operation starting while another is in progress.
C27_CooldownHonouredWhenSerial ==
    [][~raced' => \A w \in Workers : OutOfCooldown(w)]_vars

\* operations ran one at a time; the cooldown of the first identity was
\* recorded, is not over, and a get_next_available_account that loaded the
\* file is about to return another identity
C27_Witness ==
    /\ ~raced
    /\ marked[1] > now
    /\ \E w \in Workers :
          /\ op[w].name = "get_next_available_account"
          /\ op[w].phase = "loaded"
          /\ get_next_available_account(op[w].content, now).ok
          /\ get_next_available_account(op[w].content, now).index = 1
          /\ op[w].content.accounts[1].usage_count
                <= op[w].content.accounts[2].usage_count


\* ---- C28
\* the step rewrites the entry of account_index by f and leaves every other
\* entry and current_index as they are
OnlyEntryChanged(f(_)) ==
    /\ 0 <= account_index
    /\ account_index < Len(file.accounts)
    /\ Len(file'.accounts) = Len(file.accounts)
    /\ file'.current_index = file.current_index
    /\ \A j \in 1..Len(file.accounts) :
          file'.accounts[j] =
              IF j = account_index + 1 THEN f(file.accounts[j])
              ELSE file.accounts[j]

UsageRecorded(account) ==
    [account EXCEPT !.usage_count = @ + 1, !.last_used = now]

\* C28: a step of a get_messages / get_messages_since call changes the
\* persisted pool in two cases only: the attempt succeeded, and then
\* usage_count and last_used of the identity used are updated and nothing
\* else; or the attempt met a rate-limit signal, and then
\* rate_limited_until of the identity used is set and nothing else.  Every
\* other step, among them the end of an attempt by a not-found error, by
\* any other error or by no identity being available, leaves every entry
\* and current_index as they are.
C28_PoolChangedOnlyByUsageAndLimit ==
    [][pc # "idle" =>
          IF pc = "session" /\ result' # -1
          THEN OnlyEntryChanged(UsageRecorded)
          ELSE IF pc = "session" /\ trace'.floods > trace.floods
          THEN \E w \in WaitSeconds :
                  OnlyEntryChanged(
                      LAMBDA account :
                          [account EXCEPT !.rate_limited_until = RlNaive(now + w)])
          ELSE /\ file'.accounts = file.accounts
               /\ file'.current_index = file.current_index]_vars

\* a call that met nothing but other errors, three of them, and ended with
\* the pool as it was when the call started
C28_Witness ==
    /\ pc = "done"
    /\ result = -1
    /\ trace.floods = 0
    /\ trace.errors = 3
    /\ trace.last_error = "other"
    /\ trace.file0 # <<>>
    /\ file.accounts = trace.file0


\* ---- C29
\* the days of a chunk are consecutive dates in ascending order, from its
\* start_date to its end_date
DaysInOrder(chunk_data) ==
    /\ chunk_data.messages # <<>>
    /\ chunk_data.start_date = chunk_data.messages[1].date
    /\ chunk_data.end_date = chunk_data.messages[Len(chunk_data.messages)].date
    /\ \A r \in 1..(Len(chunk_data.messages) - 1) :
          chunk_data.messages[r + 1].date = chunk_data.messages[r].date + 1

\* the chunks cs are a greedy packing of the days for max_chunk_size = size
GreedyPacked(cs, size) ==
    /\ \A j \in 1..Len(cs) :
          /\ DaysInOrder(cs[j])
          /\ MessagesIn(cs[j].messages) > size => Len(cs[j].messages) = 1
    /\ \A j \in 1..(Len(cs) - 1) :
          /\ cs[j].end_date < cs[j + 1].start_date
          /\ MessagesIn(cs[j].messages) + cs[j + 1].messages[1].count > size

\* C29: whatever the messages and max_chunk_size, a chunk with more than
\* max_chunk_size messages is made of one calendar day; the messages of a
\* chunk together with those of the first day of the next chunk exceed
\* max_chunk_size; the chunks are in ascending date order, each from its
\* start_date to its end_date, and no two of them overlap.  So are the
\* chunks the Large strategy works on.
C29_GreedyPacking ==
    /\ \A size \in ChunkSizes :
          GreedyPacked(create_smart_chunks(input, size), size)
    /\ Chunked => GreedyPacked(chunks, max_chunk_size)

\* two chunks were created: a first day too large for a chunk, then the
\* other days, more than one, packed together
C29_Witness ==
    /\ Chunked
    /\ Len(chunks) = 2
    /\ MessagesIn(chunks[1].messages) > max_chunk_size
    /\ Len(chunks[2].messages) > 1
    /\ chunks[2].start_date = 2
    /\ chunks[2].end_date = Len(time_periods(input))


\* ---- C30
\* the report of the whole list and the merge of the reports of its two parts
\* agree where the claim says they do
SameAsWhole(m, whole) ==
    /\ m.trigger_frequency = whole.trigger_frequency
    /\ m.frequency_hourly = whole.frequency_hourly
    /\ m.frequency_weekday = whole.frequency_weekday
    /\ UserCounts(m.user_frequency) = UserCounts(whole.user_frequency)
    /\ m.links = whole.links

\* C30: for two batches A and B with disjoint message ids and the same trigger
\* words, merge_message_statistics(generate_message_statistics(A),
\* generate_message_statistics(B)) has the same trigger counts and id lists,
\* hourly histogram, weekday counts, per-user message counts and link list as
\* generate_message_statistics of A followed by B.
C30_MergeOfPartsIsWhole ==
    stpc = "merged" => SameAsWhole(merged[1], report)

\* both parts hold a counted message of the same weekday, a trigger word hit
\* and a link, and one user wrote in both
C30_Witness ==
    /\ stpc = "merged"
    /\ SameAsWhole(merged[1], report)
    /\ \A k \in 1..2 :
          /\ \E d \in Weekdays : stats[k].frequency_weekday[d] > 0
          /\ \E w \in trigger_words : stats[k].trigger_frequency[w].count > 0
          /\ stats[k].links # <<>>
    /\ \E d \in Weekdays :
          stats[1].frequency_weekday[d] > 0 /\ stats[2].frequency_weekday[d] > 0
    /\ \E u \in UserCounts(stats[1].user_frequency) :
          \E v \in UserCounts(stats[2].user_frequency) : u[1] = v[1]

====
